---- MODULE Spec2Model ----
(***************************************************************************)
(* State-machine model of the GitHub Issue Assistant.                      *)
(*                                                                         *)
(*   App            frontend/src/App.jsx (handleAnalyze, handleReset)      *)
(*   badges         AnalysisResult (PriorityBadge, TypeBadge)              *)
(*   LLMService     the analysis cache of analyze_issue (README.md)        *)
(*   parser         _parse_llm_response (README.md)                        *)
(*   Batch          BatchAnalysis.jsx (parseIssueNumbers, analyzeBatch)    *)
(*   Deps           DependencyGraph.jsx and the reference graph builder    *)
(*   Duplicates     DuplicateDetector.jsx and the similarity ranker        *)
(*   ErrorDisplay   ErrorDisplay.jsx (getErrorDetails)                      *)
(*   LabelCreator   LabelCreator.jsx (createLabels) and its modal in App    *)
(*   InputForm      InputForm.jsx (validateUrl, handleSubmit)                *)
(*   CrossRepo      CrossRepoSimilar.jsx (getExcludeRepo, findSimilar)       *)
(*                                                                         *)
(* Every component has its own specification (SpecApp, ...); a component's *)
(* specification leaves the variables of the other components unchanged.   *)
(***************************************************************************)
EXTENDS Integers, Sequences, FiniteSets, TLC

(***************************************************************************)
(* Values shared by the components                                         *)
(***************************************************************************)

\* JavaScript null for a string-valued state (error messages).
Null == "<null>"

\* JavaScript null for an object-valued state (result, graphData, ...).
NullData == [tag |-> "null"]

\* OrElse with ?? in place of ||: only null falls through.
OrElseNullish(a, b) == IF a = Null THEN b ELSE a

\* a || b on strings: "" and null are falsy.
OrElse(a, b) == IF a = Null \/ a = "" THEN b ELSE a

\* No request in flight.
NoReq == [tag |-> "none"]

\* Largest issue number the form submits.
MaxIssue == 2

RepoUrls == {"https://github.com/a/b", "https://github.com/c/d"}

IssueNumbers == 1..MaxIssue

(***************************************************************************)
(* App (frontend/src/App.jsx)                                              *)
(***************************************************************************)

VARIABLES
    isLoading,           \* useState(false)
    result,              \* useState(null): the response data shown as result
    error,               \* useState(null): the error message shown
    currentRepoUrl,      \* useState("")
    currentIssueNumber,  \* useState(null), 0 stands for null
    appReq,              \* the /api/analyze request awaited by handleAnalyze
    appSettled,          \* how the awaited axios promise settled last
    appSent              \* number of /api/analyze requests issued so far

appVars == <<isLoading, result, error, currentRepoUrl, currentIssueNumber,
             appReq, appSettled, appSent>>

\* The axios promise has not settled.
NotSettled == [kind |-> "none"]

\* Timeout passed to axios.post, in milliseconds.
AxiosTimeoutMs == 60000

\* Number of submits explored.
MaxSubmits == 2

\* The closed enumeration of issue types.
IssueTypes == {"bug", "feature_request", "documentation", "question", "other"}

\* A record satisfies the AnalysisRecord contract (confidence in hundredths).
ValidAnalysis(a) ==
    /\ a.priority_score \in 1..5
    /\ a.confidence_score >= 0 /\ a.confidence_score <= 100
    /\ a.type \in IssueTypes

\* What the server can put in the analysis field: in and out of contract.
AnalysisOutputs ==
    [type : {"bug", "other", "enhancement"},
     priority_score : {1, 5, 7},
     confidence_score : {0, 100, 150}]

\* Error texts a server reply can carry (null and "" included).
ServerErrors == {Null, "", "Issue not found", "Rate limit exceeded"}

\* Bodies of a 2xx reply to the request req.
AnalyzeReplies(req) ==
    {[tag |-> "data", success |-> TRUE,
      issue_data |-> [repo_url |-> req.body.repo_url,
                      issue_number |-> req.body.issue_number],
      analysis |-> a, error |-> Null] : a \in AnalysisOutputs}
    \cup {[tag |-> "data", success |-> FALSE, issue_data |-> NullData,
           analysis |-> NullData, error |-> e] : e \in ServerErrors}

\* Errors the try block can throw: timeout, HTTP error status, no response,
\* and any other exception (no code, no response, no request), such as the
\* TypeError of reading .success of a reply without a body.
AxiosErrors ==
    {[code |-> "ECONNABORTED", response |-> NullData, request |-> TRUE]}
    \cup {[code |-> "ERR_BAD_RESPONSE",
           response |-> [tag |-> "response", detail |-> d, error |-> e],
           request |-> TRUE] : d \in {Null, "AI analysis failed"},
                               e \in {Null, "", "Rate limit exceeded"}}
    \cup {[code |-> "ERR_NETWORK", response |-> NullData, request |-> TRUE]}
    \cup {[code |-> "", response |-> NullData, request |-> FALSE]}

\* The catch block without its ECONNABORTED branch.
CatchMessageNoTimeout(err) ==
    IF err.response # NullData
    THEN OrElse(err.response.detail,
                OrElse(err.response.error, "Server error. Please try again."))
    ELSE IF err.request
    THEN "Could not connect to the server. Please ensure the backend is running."
    ELSE "An unexpected error occurred. Please try again."

\* The message the catch block of handleAnalyze sets.
CatchMessage(err) ==
    IF err.code = "ECONNABORTED"
    THEN "Request timeout. The analysis is taking too long. Please try again."
    ELSE IF err.response # NullData
    THEN OrElse(err.response.detail,
                OrElse(err.response.error, "Server error. Please try again."))
    ELSE IF err.request
    THEN "Could not connect to the server. Please ensure the backend is running."
    ELSE "An unexpected error occurred. Please try again."

\* handleAnalyze with the form left on screen while loading: a submit during
\* a request sets the current repository and issue while the reply still to
\* come is the one to the earlier request.
handleAnalyzeWhileLoading(repo_url, issue_number) ==
    /\ appSent < MaxSubmits
    /\ isLoading' = TRUE
    /\ result' = NullData
    /\ error' = Null
    /\ currentRepoUrl' = repo_url
    /\ currentIssueNumber' = issue_number
    /\ appReq' = IF appReq # NoReq THEN appReq
                 ELSE [tag |-> "request", url |-> "/api/analyze",
                       body |-> [repo_url |-> repo_url, issue_number |-> issue_number],
                       timeout |-> {AxiosTimeoutMs}]
    /\ appSettled' = NotSettled
    /\ appSent' = appSent + 1

\* InputForm is rendered only while not loading; it calls handleAnalyze.
\* handleAnalyze up to its await: the state resets and the axios.post.
handleAnalyze(repo_url, issue_number) ==
    /\ ~isLoading
    /\ appSent < MaxSubmits
    /\ isLoading' = TRUE
    /\ result' = NullData
    /\ error' = Null
    /\ currentRepoUrl' = repo_url
    /\ currentIssueNumber' = issue_number
    /\ appReq' = [tag |-> "request", url |-> "/api/analyze",
                  body |-> [repo_url |-> repo_url, issue_number |-> issue_number],
                  timeout |-> {AxiosTimeoutMs}]
    /\ appSettled' = NotSettled
    /\ appSent' = appSent + 1

\* handleAnalyze after the await, a 2xx reply with a body: try + finally.
AnalyzeReplied ==
    /\ appReq # NoReq
    /\ \E data \in AnalyzeReplies(appReq) :
          /\ appSettled' = [kind |-> "reply", data |-> data]
          /\ IF data.success
             THEN result' = data /\ UNCHANGED error
             ELSE error' = OrElse(data.error, "Analysis failed. Please try again.")
                  /\ UNCHANGED result
    /\ isLoading' = FALSE
    /\ appReq' = NoReq
    /\ UNCHANGED <<currentRepoUrl, currentIssueNumber, appSent>>

\* A catch block that sends the failed request again instead of giving up.
AnalyzeFailedRetry(err) ==
    /\ appReq # NoReq
    /\ appSent < MaxSubmits
    /\ appSettled' = [kind |-> "error", err |-> err]
    /\ appSent' = appSent + 1
    /\ UNCHANGED <<isLoading, result, error, currentRepoUrl, currentIssueNumber,
                   appReq>>

\* handleAnalyze after the await, axios threw err: catch + finally.  The
\* timeout error needs the request to carry a timeout.
AnalyzeFailed(err) ==
    /\ appReq # NoReq
    /\ err.code = "ECONNABORTED" => appReq.timeout # {}
    /\ appSettled' = [kind |-> "error", err |-> err]
    /\ error' = CatchMessage(err)
    /\ isLoading' = FALSE
    /\ appReq' = NoReq
    /\ UNCHANGED <<result, currentRepoUrl, currentIssueNumber, appSent>>

\* "Try Again" (ErrorDisplay onRetry) and "New Analysis" call handleReset.
handleReset ==
    /\ error # Null \/ result # NullData
    /\ result' = NullData
    /\ error' = Null
    /\ UNCHANGED <<isLoading, currentRepoUrl, currentIssueNumber, appReq,
                   appSettled, appSent>>

AppInit ==
    /\ isLoading = FALSE
    /\ result = NullData
    /\ error = Null
    /\ currentRepoUrl = ""
    /\ currentIssueNumber = 0
    /\ appReq = NoReq
    /\ appSettled = NotSettled
    /\ appSent = 0

\* The repository whose issue App analysed before a tab is opened.
AnalysedRepoUrl == "https://github.com/a/b"

\* App after handleAnalyze(AnalysedRepoUrl, issue_number) completed with a
\* result: the state in which the tabs below the result are rendered.
AppAnalysed(issue_number) ==
    /\ isLoading = FALSE
    /\ result = [tag |-> "data", success |-> TRUE,
                 issue_data |-> [repo_url |-> AnalysedRepoUrl,
                                 issue_number |-> issue_number],
                 analysis |-> [type |-> "bug", priority_score |-> 1,
                               confidence_score |-> 100],
                 error |-> Null]
    /\ error = Null
    /\ currentRepoUrl = AnalysedRepoUrl
    /\ currentIssueNumber = issue_number
    /\ appReq = NoReq
    /\ appSettled = [kind |-> "reply", data |-> result]
    /\ appSent = 1

(***************************************************************************)
(* AnalysisResult badges (PriorityBadge, TypeBadge)                        *)
(***************************************************************************)

\* PriorityBadge: config[score] || config[3].
PriorityBadge(score) ==
    LET config == [s \in 1..5 |->
                     CASE s = 5 -> "Critical"
                       [] s = 4 -> "High"
                       [] s = 3 -> "Medium"
                       [] s = 2 -> "Low"
                       [] s = 1 -> "Minimal"]
    IN  IF score \in DOMAIN config THEN config[score] ELSE config[3]

\* TypeBadge: config[type] || config.other (the icon names the entry used).
TypeBadge(type) ==
    LET config == [t \in IssueTypes |->
                     CASE t = "bug" -> "Bug"
                       [] t = "feature_request" -> "Zap"
                       [] t = "documentation" -> "BookOpen"
                       [] t = "question" -> "HelpCircle"
                       [] t = "other" -> "FileText"]
    IN  IF type \in DOMAIN config THEN config[type] ELSE config["other"]

(***************************************************************************)
(* ErrorDisplay (frontend/src/components/ErrorDisplay.jsx)                 *)
(*                                                                         *)
(* A JavaScript value is a record [type, value]; messages are strings.     *)
(***************************************************************************)

UpperCaseLetters == "ABCDEFGHIJKLMNOPQRSTUVWXYZ"

LowerCaseLetters == "abcdefghijklmnopqrstuvwxyz"

LowerChar(c) ==
    IF \E i \in 1..Len(UpperCaseLetters) : SubSeq(UpperCaseLetters, i, i) = c
    THEN LET i == CHOOSE k \in 1..Len(UpperCaseLetters) :
                     SubSeq(UpperCaseLetters, k, k) = c
         IN SubSeq(LowerCaseLetters, i, i)
    ELSE c

\* String.prototype.toLowerCase()
RECURSIVE ToLowerCase(_)
ToLowerCase(str) ==
    IF Len(str) = 0 THEN ""
    ELSE ToLowerCase(SubSeq(str, 1, Len(str) - 1))
             \o LowerChar(SubSeq(str, Len(str), Len(str)))

\* String.prototype.includes(sub)
Includes(str, sub) ==
    \E i \in 1..(Len(str) - Len(sub) + 1) : SubSeq(str, i, i + Len(sub) - 1) = sub

JsString(str) == [type |-> "string", value |-> str]

JsNull == [type |-> "null", value |-> ""]

JsUndefined == [type |-> "undefined", value |-> ""]

\* The value of a string-valued state, in which Null stands for null.
JsValueOf(message) == IF message = Null THEN JsNull ELSE JsString(message)

\* v is falsy: null, undefined, 0, NaN, false (and "", which is a string).
Falsy(v) ==
    \/ v.type \in {"null", "undefined", "NaN"}
    \/ v.type = "number" /\ v.value = 0
    \/ v.type = "boolean" /\ ~v.value
    \/ v.type = "string" /\ v.value = ""

\* String(v) for a value that is no string.
StringOf(v) ==
    CASE v.type = "number"  -> ToString(v.value)
      [] v.type = "boolean" -> IF v.value THEN "true" ELSE "false"
      [] v.type = "object"  -> "[object Object]"
      [] v.type = "string"  -> v.value
      [] OTHER              -> v.type

\* ErrorText without toLowerCase.
ErrorTextAsTyped(errorMessage) ==
    IF errorMessage.type = "string" THEN errorMessage.value
    ELSE IF Falsy(errorMessage) THEN "Unknown error"
    ELSE StringOf(errorMessage)

\* The text getErrorDetails matches its rules against.
ErrorText(errorMessage) ==
    ToLowerCase(IF errorMessage.type = "string" THEN errorMessage.value
                ELSE IF Falsy(errorMessage) THEN "Unknown error"
                ELSE StringOf(errorMessage))

\* getErrorDetails without its final return: undefined when no rule matches.
getErrorDetailsNoFallback(errorMessage) ==
    LET msg == ErrorText(errorMessage)
    IN IF Includes(msg, "not found") \/ Includes(msg, "404")
       THEN [title |-> "Issue Not Found",
             description |-> JsString("The repository or issue could not be found."),
             suggestions |-> <<"Check that the repository URL is correct",
                               "Verify the issue number exists",
                               "Make sure the repository is public">>]
       ELSE IF Includes(msg, "private") \/ Includes(msg, "access denied")
               \/ Includes(msg, "403")
       THEN [title |-> "Access Denied",
             description |-> JsString("Cannot access this repository."),
             suggestions |-> <<"This might be a private repository",
                               "Only public repositories are supported",
                               "Check if the URL is correct">>]
       ELSE IF Includes(msg, "rate limit")
       THEN [title |-> "Rate Limit Exceeded",
             description |-> JsString("Too many requests to GitHub API."),
             suggestions |-> <<"Wait a few minutes and try again",
                               "GitHub limits unauthenticated requests">>]
       ELSE IF Includes(msg, "timeout")
       THEN [title |-> "Request Timeout",
             description |-> JsString("The request took too long to complete."),
             suggestions |-> <<"Check your internet connection",
                               "Try again in a moment",
                               "The server might be busy">>]
       ELSE IF Includes(msg, "ai") \/ Includes(msg, "llm") \/ Includes(msg, "analysis")
       THEN [title |-> "Analysis Error",
             description |-> JsString("The AI could not analyze this issue."),
             suggestions |-> <<"Try again - sometimes AI responses vary",
                               "The issue might have unusual formatting">>]
       ELSE JsUndefined

\* getErrorDetails(errorMessage): the first rule that matches decides.
getErrorDetails(errorMessage) ==
    LET msg == ErrorText(errorMessage)
    IN IF Includes(msg, "not found") \/ Includes(msg, "404")
       THEN [title |-> "Issue Not Found",
             description |-> JsString("The repository or issue could not be found."),
             suggestions |-> <<"Check that the repository URL is correct",
                               "Verify the issue number exists",
                               "Make sure the repository is public">>]
       ELSE IF Includes(msg, "private") \/ Includes(msg, "access denied")
               \/ Includes(msg, "403")
       THEN [title |-> "Access Denied",
             description |-> JsString("Cannot access this repository."),
             suggestions |-> <<"This might be a private repository",
                               "Only public repositories are supported",
                               "Check if the URL is correct">>]
       ELSE IF Includes(msg, "rate limit")
       THEN [title |-> "Rate Limit Exceeded",
             description |-> JsString("Too many requests to GitHub API."),
             suggestions |-> <<"Wait a few minutes and try again",
                               "GitHub limits unauthenticated requests">>]
       ELSE IF Includes(msg, "timeout")
       THEN [title |-> "Request Timeout",
             description |-> JsString("The request took too long to complete."),
             suggestions |-> <<"Check your internet connection",
                               "Try again in a moment",
                               "The server might be busy">>]
       ELSE IF Includes(msg, "ai") \/ Includes(msg, "llm") \/ Includes(msg, "analysis")
       THEN [title |-> "Analysis Error",
             description |-> JsString("The AI could not analyze this issue."),
             suggestions |-> <<"Try again - sometimes AI responses vary",
                               "The issue might have unusual formatting">>]
       ELSE [title |-> "Something Went Wrong",
             description |-> errorMessage,
             suggestions |-> <<"Please try again",
                               "Check your inputs and try once more">>]

\* App renders <ErrorDisplay error={error}> while error is truthy.
ErrorDisplayShown == error # Null /\ error # ""

VARIABLES
    errorProp,      \* the error prop of the last render of ErrorDisplay
    errorDetails,   \* what getErrorDetails returned in that render
    errorRender     \* "none", "first" (first render with this prop) or "again"

errVars == <<errorProp, errorDetails, errorRender>>

MessagePrefixes == {"", "Error: ", "GitHub API "}

MessageWords ==
    {"", "oops", "Not Found", "404", "PRIVATE", "Access Denied", "403",
     "Rate Limit", "Timeout", "AI", "LLM", "Analysis",
     "Private repo Not Found", "Rate Limit Timeout"}

MessageSuffixes == {"", " error", ". Please try again."}

\* The values an error prop can hold: strings, and values that are no string.
ErrorValues ==
    {JsString(p \o w \o x) : p \in MessagePrefixes, w \in MessageWords,
                             x \in MessageSuffixes}
    \cup {JsNull, JsUndefined,
          [type |-> "number", value |-> 0], [type |-> "number", value |-> 404],
          [type |-> "boolean", value |-> FALSE], [type |-> "boolean", value |-> TRUE],
          [type |-> "object", value |-> ""]}

\* A render of ErrorDisplay with the error prop err.
ErrorDisplay(err) ==
    /\ errorProp' = err
    /\ errorDetails' = getErrorDetails(err)
    /\ errorRender' = "first"

\* A re-render with the same prop (the parent rendered again).
ErrorDisplayAgain ==
    /\ errorRender # "none"
    /\ errorProp' = errorProp
    /\ errorDetails' = getErrorDetails(errorProp)
    /\ errorRender' = "again"

ErrIdle ==
    /\ errorProp = JsUndefined
    /\ errorDetails = JsUndefined
    /\ errorRender = "none"

(***************************************************************************)
(* LLMService (README.md, "Caching Strategy"): analyze_issue and its       *)
(* in-memory cache, called by concurrent requests of one event loop.       *)
(***************************************************************************)

VARIABLES
    cache,      \* self.cache: cache key -> analysis
    svcPc,      \* per request: "idle", "awaiting" (_call_gemini), "done", "failed"
    svcArgs,    \* per request: the (repo_url, issue_number) arguments
    svcRet,     \* per request: the (analysis, from_cache) pair returned
    callsBy     \* per request: number of _call_gemini invocations it made

svcVars == <<cache, svcPc, svcArgs, svcRet, callsBy>>

\* Number of analyze_issue calls explored.
NumRequests == 3

Requests == 1..NumRequests

\* What _call_gemini can return: the generator is not deterministic.
GeminiOutputs == {a \in AnalysisOutputs : a.type = "bug" /\ a.confidence_score = 100}

NoArgs == [repo_url |-> "", issue_number |-> 0]

NoRet == [tag |-> "none"]

\* CacheKey without the issue number.
CacheKeyRepoOnly(repo_url, issue_number) == <<repo_url, "#">>

\* cache_key = f"{repo_url}#{issue_number}": the parts, in order.
CacheKey(repo_url, issue_number) == <<repo_url, "#", issue_number>>

\* CacheHas that never finds the key.
CacheHasNever(c, key) == FALSE

\* if cache_key in self.cache
CacheHas(c, key) == key \in DOMAIN c

\* A store that empties the cache first.
CacheStoreAlone(c, key, analysis) == [k \in {key} |-> analysis]

\* self.cache[cache_key] = analysis
CacheStore(c, key, analysis) ==
    [k \in DOMAIN c \cup {key} |-> IF k = key THEN analysis ELSE c[k]]

\* analyze_issue up to its first suspension: the lookup, then either the
\* return from cache or the call of _call_gemini, which is awaited.
analyze_issue(r, repo_url, issue_number) ==
    /\ svcPc[r] = "idle"
    /\ svcArgs' = [svcArgs EXCEPT ![r] = [repo_url |-> repo_url,
                                          issue_number |-> issue_number]]
    /\ LET cache_key == CacheKey(repo_url, issue_number)
       IN  IF CacheHas(cache, cache_key)
           THEN /\ svcRet' = [svcRet EXCEPT ![r] =
                                [tag |-> "ret", analysis |-> cache[cache_key],
                                 from_cache |-> TRUE]]
                /\ svcPc' = [svcPc EXCEPT ![r] = "done"]
                /\ UNCHANGED callsBy
           ELSE /\ svcPc' = [svcPc EXCEPT ![r] = "awaiting"]
                /\ callsBy' = [callsBy EXCEPT ![r] = @ + 1]
                /\ UNCHANGED svcRet
    /\ UNCHANGED cache

\* _call_gemini returned analysis: the store and the return of the fresh value.
analyze_issue_resume(r, analysis) ==
    /\ svcPc[r] = "awaiting"
    /\ cache' = CacheStore(cache,
                           CacheKey(svcArgs[r].repo_url, svcArgs[r].issue_number),
                           analysis)
    /\ svcRet' = [svcRet EXCEPT ![r] =
                    [tag |-> "ret", analysis |-> analysis, from_cache |-> FALSE]]
    /\ svcPc' = [svcPc EXCEPT ![r] = "done"]
    /\ UNCHANGED <<svcArgs, callsBy>>

\* _call_gemini raised: the exception leaves analyze_issue, nothing is stored.
analyze_issue_raise(r) ==
    /\ svcPc[r] = "awaiting"
    /\ svcPc' = [svcPc EXCEPT ![r] = "failed"]
    /\ UNCHANGED <<cache, svcArgs, svcRet, callsBy>>

SvcInit ==
    /\ cache = << >>
    /\ svcPc = [r \in Requests |-> "idle"]
    /\ svcArgs = [r \in Requests |-> NoArgs]
    /\ svcRet = [r \in Requests |-> NoRet]
    /\ callsBy = [r \in Requests |-> 0]

(***************************************************************************)
(* _parse_llm_response (README.md, "JSON Validation & Parsing")            *)
(*                                                                         *)
(* A response text is a sequence of tokens: "p" a word of prose, "N" a     *)
(* newline, "F" a run of three backticks, "json" the word json, "{" and    *)
(* "}" braces, and "A", "B" the member text of an analysis object.         *)
(***************************************************************************)

VARIABLES
    rawText,     \* response_text
    rawSource,   \* how the response text was made (free text, or a wrapped record)
    parsePc,     \* "stage1", "stage2", "stage3", "returned", "raised"
    parseTried,  \* the attempts made so far, in order
    parseOut     \* the value returned

parseVars == <<rawText, rawSource, parsePc, parseTried, parseOut>>

\* Longest free response text.
MaxTextLen == 6

\* Longest prose before and after a fenced block.
MaxProse == 2

TextAlphabet == {"p", "N", "F", "json", "{", "}", "A"}

\* The tokens of the prose around a fenced block.
ProseAlphabet == {"p", "N", "F", "json", "{"}

\* Member texts, and the analysis each one spells.
BodyTokens == {"A", "B"}

BodyOf(b) ==
    IF b = "A"
    THEN [type |-> "bug", priority_score |-> 5, confidence_score |-> 100]
    ELSE [type |-> "other", priority_score |-> 1, confidence_score |-> 0]

NoValue == << >>

\* Whitespace between JSON tokens is skipped.
StripNewlines(t) == SelectSeq(t, LAMBDA x : x # "N")

\* json.loads: an object, empty or holding one member text; the value is the
\* object without its whitespace.  Anything else is a JSONDecodeError.
JsonLoads(t) ==
    LET s == StripNewlines(t)
        ok == \/ s = <<"{", "}">>
              \/ Len(s) = 3 /\ s[1] = "{" /\ s[2] \in BodyTokens /\ s[3] = "}"
    IN  [ok |-> ok, value |-> IF ok THEN s ELSE NoValue]

\* The opening of the fence pattern with a mandatory json tag.
ContentStartTagged(t, i) ==
    IF i + 2 <= Len(t) /\ t[i] = "F" /\ t[i+1] = "json" /\ t[i+2] = "N"
    THEN {i + 3} ELSE {}

\* ```(?:json)?\n matched at position i: where the group (.*?) starts.
ContentStart(t, i) ==
    IF i + 2 <= Len(t) /\ t[i] = "F" /\ t[i+1] = "json" /\ t[i+2] = "N"
    THEN {i + 3}
    ELSE IF i + 1 <= Len(t) /\ t[i] = "F" /\ t[i+1] = "N"
    THEN {i + 2}
    ELSE {}

\* \n``` after the group: the positions of the closing newline.
ContentEnds(t, c) == {j \in c..(Len(t) - 1) : t[j] = "N" /\ t[j+1] = "F"}

\* The positions where the whole pattern matches.
MatchStarts(t) ==
    {i \in 1..Len(t) : \E c \in ContentStart(t, i) : ContentEnds(t, c) # {}}

Min(S) == CHOOSE x \in S : \A y \in S : x <= y

\* re.search(r'```(?:json)?\n(.*?)\n```', text, re.DOTALL): the leftmost
\* match, its group the shortest possible.
ReSearch(t) ==
    IF MatchStarts(t) = {}
    THEN [found |-> FALSE, group |-> << >>]
    ELSE LET i == Min(MatchStarts(t))
             c == CHOOSE x \in ContentStart(t, i) : TRUE
             j == Min(ContentEnds(t, c))
         IN  [found |-> TRUE, group |-> SubSeq(t, c, j - 1)]

\* The analysis a parsed value spells, and whether it is one.
IsRecordValue(v) == Len(v) = 3 /\ v[2] \in BodyTokens

\* IssueAnalysis.model_validate_json: parse, then validate the fields.
ModelValidateJson(t) ==
    LET parsed == JsonLoads(t)
        ok == /\ parsed.ok
              /\ IsRecordValue(parsed.value)
              /\ BodyOf(parsed.value[2]).priority_score \in 1..5
              /\ BodyOf(parsed.value[2]).confidence_score \in 0..100
    IN  [ok |-> ok, value |-> IF ok THEN parsed.value ELSE NoValue]

\* json.dumps of a record, compact or indented.
Serialize(b, indent) ==
    IF indent THEN <<"{", "N", b, "N", "}">> ELSE <<"{", b, "}">>

\* A fenced code block around json_text, tagged json or not, inside prose.
Wrap(before, tagged, json_text, after) ==
    before \o <<"F">> \o (IF tagged THEN <<"json">> ELSE << >>) \o <<"N">>
           \o json_text \o <<"N", "F">> \o after

\* Attempt 1: direct JSON parse.
ParseAttempt1 ==
    /\ parsePc = "stage1"
    /\ parseTried' = Append(parseTried, 1)
    /\ IF JsonLoads(rawText).ok
       THEN parsePc' = "returned" /\ parseOut' = JsonLoads(rawText).value
       ELSE parsePc' = "stage2" /\ UNCHANGED parseOut
    /\ UNCHANGED <<rawText, rawSource>>

\* Attempt 2: extract from a markdown code block.
ParseAttempt2 ==
    /\ parsePc = "stage2"
    /\ parseTried' = Append(parseTried, 2)
    /\ LET match == ReSearch(rawText)
       IN  IF match.found /\ JsonLoads(match.group).ok
           THEN parsePc' = "returned" /\ parseOut' = JsonLoads(match.group).value
           ELSE parsePc' = "stage3" /\ UNCHANGED parseOut
    /\ UNCHANGED <<rawText, rawSource>>

\* Attempt 3: validate the whole text with the Pydantic model, or raise
\* ValueError.
ParseAttempt3 ==
    /\ parsePc = "stage3"
    /\ parseTried' = Append(parseTried, 3)
    /\ IF ModelValidateJson(rawText).ok
       THEN parsePc' = "returned" /\ parseOut' = ModelValidateJson(rawText).value
       ELSE parsePc' = "raised" /\ UNCHANGED parseOut
    /\ UNCHANGED <<rawText, rawSource>>

ParseIdle ==
    /\ rawText = << >>
    /\ rawSource = [kind |-> "free"]
    /\ parsePc = "stage1"
    /\ parseTried = << >>
    /\ parseOut = NoValue

\* The response texts explored: every short text, and every record wrapped
\* in a fenced block with prose around it.
ParseInit ==
    /\ \/ /\ \E k \in 0..MaxTextLen : rawText \in [1..k -> TextAlphabet]
          /\ rawSource = [kind |-> "free"]
       \/ \E m \in 0..MaxProse, n \in 0..MaxProse :
             \E pre \in [1..m -> ProseAlphabet], post \in [1..n -> ProseAlphabet],
                tg \in BOOLEAN, b \in BodyTokens, ind \in BOOLEAN :
                /\ rawText = Wrap(pre, tg, Serialize(b, ind), post)
                /\ rawSource = [kind |-> "wrapped", record |-> BodyOf(b),
                                before |-> pre, tagged |-> tg, after |-> post]
    /\ parsePc = "stage1"
    /\ parseTried = << >>
    /\ parseOut = NoValue

(***************************************************************************)
(* BatchAnalysis (frontend/src/components/BatchAnalysis.jsx)               *)
(*                                                                         *)
(* The input text is a sequence of one-character strings.                  *)
(***************************************************************************)

VARIABLES
    issueInput,     \* useState(""): the text of the issue-number field
    batchLoading,   \* useState(false)
    batchError,     \* useState(null)
    batchResults,   \* useState(null)
    batchReq,       \* the /api/batch-analyze request awaited by analyzeBatch
    issueFails      \* how the backend fares on the issues 0..MaxFailIssue

batchVars == <<issueInput, batchLoading, batchError, batchResults, batchReq,
               issueFails>>

\* Longest input text explored.
MaxInputLen == 6

\* Characters of the input text explored.
InputAlphabet == {"0", "1", ",", "-", " ", "a"}

DigitChars == <<"0", "1", "2", "3", "4", "5", "6", "7", "8", "9">>

\* parseInt's result on a text without digits.  The texts parseIssueNumbers
\* hands to parseInt carry no sign, so no parsed number is negative.
NaN == -1

\* Array.from(numbers).slice(0, 10)
MaxBatchIssues == 10

\* Math.min(end, start + 9)
RangeSpan == 9

Range(s) == {s[i] : i \in 1..Len(s)}

\* The parts of s from position i on, cur being the part read so far.
RECURSIVE SplitFrom(_, _, _, _)
SplitFrom(s, sep, i, cur) ==
    IF i > Len(s) THEN <<cur>>
    ELSE IF s[i] = sep THEN <<cur>> \o SplitFrom(s, sep, i + 1, << >>)
    ELSE SplitFrom(s, sep, i + 1, Append(cur, s[i]))

\* String.prototype.split(sep) for a one-character separator.
Split(s, sep) == SplitFrom(s, sep, 1, << >>)

\* String.prototype.trim()
Trim(s) ==
    LET P == {i \in 1..Len(s) : s[i] # " "}
    IN IF P = {} THEN << >>
       ELSE SubSeq(s, CHOOSE p \in P : \A q \in P : p <= q,
                      CHOOSE p \in P : \A q \in P : p >= q)

DigitValue(c) == (CHOOSE i \in 1..10 : DigitChars[i] = c) - 1

RECURSIVE DecimalValue(_)
DecimalValue(d) ==
    IF d = << >> THEN 0
    ELSE 10 * DecimalValue(SubSeq(d, 1, Len(d) - 1)) + DigitValue(d[Len(d)])

\* parseInt(s): leading white space is skipped, the longest run of digits
\* is read, NaN when there is none.
ParseInt(s) ==
    LET first == CHOOSE i \in 1..(Len(s) + 1) :
                    /\ \A j \in 1..(i - 1) : s[j] = " "
                    /\ i <= Len(s) => s[i] # " "
        stop  == CHOOSE i \in first..(Len(s) + 1) :
                    /\ \A j \in first..(i - 1) : s[j] \in Range(DigitChars)
                    /\ i <= Len(s) => s[i] \notin Range(DigitChars)
    IN IF stop = first THEN NaN ELSE DecimalValue(SubSeq(s, first, stop - 1))

\* Set.prototype.add that forgets the membership test.
SetAddAlways(numbers, x) == Append(numbers, x)

\* Set.prototype.add: a Set keeps insertion order, a present value stays.
SetAdd(numbers, x) ==
    IF x \in Range(numbers) THEN numbers ELSE Append(numbers, x)

\* for (let i = start; i <= last; i++) numbers.add(i)
RECURSIVE AddFromTo(_, _, _)
AddFromTo(numbers, i, last) ==
    IF i > last THEN numbers ELSE AddFromTo(SetAdd(numbers, i), i + 1, last)

MinOf(a, b) == IF a <= b THEN a ELSE b

\* The body of the loop over the parts.
AddPart(numbers, part) ==
    IF "-" \in Range(part)
    THEN LET pieces == Split(part, "-")
             start  == ParseInt(Trim(pieces[1]))
             end    == ParseInt(Trim(pieces[2]))
         IN IF start # NaN /\ end # NaN
            THEN AddFromTo(numbers, start, MinOf(end, start + RangeSpan))
            ELSE numbers
    ELSE LET num == ParseInt(part)
         IN IF num # NaN THEN SetAdd(numbers, num) ELSE numbers

RECURSIVE AddParts(_, _, _)
AddParts(numbers, parts, k) ==
    IF k > Len(parts) THEN numbers
    ELSE AddParts(AddPart(numbers, parts[k]), parts, k + 1)

parseIssueNumbers(input) ==
    LET split   == Split(input, ",")
        parts   == [k \in 1..Len(split) |-> Trim(split[k])]
        numbers == AddParts(<< >>, parts, 1)
    IN SubSeq(numbers, 1, MinOf(Len(numbers), MaxBatchIssues))

\* Largest issue number whose fetch or analysis may fail.
MaxFailIssue == 1

\* An issue is analysed, or its fetch fails, or its analysis fails.
IssueOutcomes == {"ok", "fetch", "analysis"}

AllOk == [n \in 0..MaxFailIssue |-> "ok"]

OutcomeOf(fails, n) == IF n \in DOMAIN fails THEN fails[n] ELSE "ok"

\* The entry of one issue of a batch: the analysis, or the captured failure.
BatchEntry(n, outcome) ==
    IF outcome = "ok"
    THEN [issue_number |-> n, success |-> TRUE,
          analysis |-> [type |-> "bug", priority_score |-> 3], error |-> Null]
    ELSE [issue_number |-> n, success |-> FALSE, analysis |-> NullData,
          error |-> IF outcome = "fetch" THEN "Issue not found"
                    ELSE "AI analysis failed"]

\* analyzeBatch(repo, issueNumbers, cap = 10) -> {perIssueResults, statistics}:
\* every issue up to the cap is analysed on its own; of the statistics the
\* counters are modelled.
BatchOrchestrator(issue_numbers, fails) ==
    LET capped == SubSeq(issue_numbers, 1, MinOf(Len(issue_numbers), MaxBatchIssues))
        issues == [i \in 1..Len(capped) |->
                      BatchEntry(capped[i], OutcomeOf(fails, capped[i]))]
        ok     == {i \in 1..Len(issues) : issues[i].success}
    IN [tag |-> "batch",
        issues |-> issues,
        statistics |-> [total_analyzed |-> Len(issues),
                        successful |-> Cardinality(ok),
                        failed |-> Len(issues) - Cardinality(ok)]]

\* Bodies of a reply to the request req.
BatchReplies(req, fails) ==
    {[success |-> TRUE, data |-> BatchOrchestrator(req.issue_numbers, fails),
      error |-> Null]}
    \cup {[success |-> FALSE, data |-> NullData, error |-> e] : e \in ServerErrors}

\* The issue list with the failed entries filtered out, as in exportToCSV.
DisplayedIssuesSuccessful(results) ==
    LET shown == SelectSeq(results.issues, LAMBDA issue : issue.success)
    IN [i \in 1..Len(shown) |->
           [issue_number |-> shown[i].issue_number, failed |-> FALSE,
            text |-> "P" \o ToString(shown[i].analysis.priority_score)]]

\* results.issues.map: one card per entry; a failed entry shows its error.
DisplayedIssues(results) ==
    [i \in 1..Len(results.issues) |->
        LET issue == results.issues[i]
        IN IF issue.success
           THEN [issue_number |-> issue.issue_number, failed |-> FALSE,
                 text |-> "P" \o ToString(issue.analysis.priority_score)]
           ELSE [issue_number |-> issue.issue_number, failed |-> TRUE,
                 text |-> "Failed: " \o issue.error]]

\* The statistics dashboard: Total Issues, Analyzed, Failed.
DisplayedStatistics(results) ==
    [total |-> results.statistics.total_analyzed,
     analyzed |-> results.statistics.successful,
     failed |-> results.statistics.failed]

\* The results are on screen.
BatchResultsShown == ~batchLoading /\ batchResults # NullData

\* analyzeBatch up to its await; repoUrl is App's currentRepoUrl.  The button
\* is disabled while loading and while the trimmed input is empty.
analyzeBatch ==
    /\ ~batchLoading
    /\ Trim(issueInput) # << >>
    /\ LET issueNumbers == parseIssueNumbers(issueInput)
       IN IF Len(issueNumbers) = 0
          THEN /\ batchError' = "Please enter valid issue numbers (e.g., \"1,2,3\" or \"1-5\")"
               /\ UNCHANGED <<batchLoading, batchReq>>
          ELSE IF currentRepoUrl = ""
          THEN /\ batchError' = "Please enter a repository URL first"
               /\ UNCHANGED <<batchLoading, batchReq>>
          ELSE /\ batchLoading' = TRUE
               /\ batchError' = Null
               /\ batchReq' = [url |-> "/api/batch-analyze",
                               repo_url |-> currentRepoUrl,
                               issue_numbers |-> issueNumbers,
                               timeout |-> {}]
    /\ UNCHANGED <<issueInput, batchResults, issueFails>>

\* The response arrived and response.json() parsed it.
BatchReplied ==
    /\ batchReq # NoReq
    /\ \E data \in BatchReplies(batchReq, issueFails) :
          IF data.success
          THEN batchResults' = data.data /\ UNCHANGED batchError
          ELSE batchError' = OrElse(data.error, "Batch analysis failed")
               /\ UNCHANGED batchResults
    /\ batchLoading' = FALSE
    /\ batchReq' = NoReq
    /\ UNCHANGED <<issueInput, issueFails>>

\* fetch rejected, or response.json() threw.
BatchFailed ==
    /\ batchReq # NoReq
    /\ batchError' = "Failed to connect to server"
    /\ batchLoading' = FALSE
    /\ batchReq' = NoReq
    /\ UNCHANGED <<issueInput, batchResults, issueFails>>

BatchIdle ==
    /\ issueInput = << >>
    /\ batchLoading = FALSE
    /\ batchError = Null
    /\ batchResults = NullData
    /\ batchReq = NoReq
    /\ issueFails = AllOk

\* The tab just mounted, with a text typed in the field.
BatchInit ==
    /\ \E k \in 0..MaxInputLen : issueInput \in [1..k -> InputAlphabet]
    /\ batchLoading = FALSE
    /\ batchError = Null
    /\ batchResults = NullData
    /\ batchReq = NoReq
    /\ issueFails = AllOk

\* Longest input text explored together with failing issues.
MaxFailInputLen == 4

\* The tab just mounted, with a short text typed, in a repository where the
\* fetch or the analysis of some issues fails.
BatchFailInit ==
    /\ \E k \in 0..MaxFailInputLen : issueInput \in [1..k -> InputAlphabet]
    /\ batchLoading = FALSE
    /\ batchError = Null
    /\ batchResults = NullData
    /\ batchReq = NoReq
    /\ issueFails \in [0..MaxFailIssue -> IssueOutcomes]

(***************************************************************************)
(* The repository the backend reads: its issues, the references between    *)
(* them and the similarity of each issue to the analysed one.              *)
(***************************************************************************)

\* Largest issue number of the repository.
MaxRepoIssue == 3

RepoIssues == 1..MaxRepoIssue

\* Largest number of references in the issue texts.
MaxRefs == 3

(***************************************************************************)
(* DependencyGraph (frontend/src/components/DependencyGraph.jsx) and the   *)
(* ReferenceGraphBuilder behind /api/dependencies                          *)
(***************************************************************************)

VARIABLES
    issueRefs,   \* <<u, v>>: the text of issue u references #v
    fetchable,   \* the issues the builder's fetch obtains
    depLoading,  \* useState(false)
    depError,    \* useState(null)
    graphData,   \* useState(null)
    depth,       \* useState(1)
    depReq,      \* the /api/dependencies request awaited by fetchDependencies
    depTrace     \* what the builder did for the reply that set graphData

depVars == <<issueRefs, fetchable, depLoading, depError, graphData, depth, depReq,
             depTrace>>

\* graphData was not set by a reply of the builder.
NoTrace == [tag |-> "none"]

\* A depth select with a fourth option.
DepthOptionsWithFour == {1, 2, 3, 4}

\* The options of the depth select.
DepthOptions == {1, 2, 3}

GraphNode(n, root) == [id |-> n, issue_number |-> n, is_root |-> (n = root)]

GraphEdge(ref) == [source |-> ref[1], target |-> ref[2], type |-> "mentions"]

\* The visited test that lets every referenced issue through.
UnvisitedAny(found, visited) == found

\* The referenced issues the expansion has not met before.
Unvisited(found, visited) == found \ visited

\* Breadth-first expansion: the issues of the frontier are scanned for
\* references; a referenced issue not yet visited is fetched and joins the
\* node set when the fetch succeeds; a reference is recorded as an edge when
\* its target is in the node set.  expanded and attempted list, level by
\* level, the issues scanned and the issues whose fetch was attempted.
RECURSIVE Expand(_, _, _, _, _)
Expand(g, frontier, remaining, refs, ok) ==
    IF remaining = 0 \/ frontier = {} THEN g
    ELSE LET found   == {v \in RepoIssues : \E u \in frontier : <<u, v>> \in refs}
             tried   == Unvisited(found, g.visited)
             fetched == tried \cap ok
             nodes2  == g.nodes \cup fetched
             edges2  == g.edges \cup
                        {r \in refs : r[1] \in frontier /\ r[2] \in nodes2}
         IN Expand([nodes |-> nodes2, edges |-> edges2,
                    visited |-> g.visited \cup tried,
                    expanded |-> Append(g.expanded, frontier),
                    attempted |-> Append(g.attempted, tried)],
                   fetched, remaining - 1, refs, ok)

\* The expansion from the root, already fetched by the analysis.
ExpandFrom(root, maxDepth, refs, ok) ==
    Expand([nodes |-> {root}, edges |-> {}, visited |-> {root},
            expanded |-> << >>, attempted |-> <<{root}>>],
           {root}, maxDepth, refs, ok)

\* build(root, maxDepth) -> {nodes, edges}
build(root, maxDepth, refs, ok) ==
    LET g == ExpandFrom(root, maxDepth, refs, ok)
    IN [tag |-> "graph",
        nodes |-> {GraphNode(n, root) : n \in g.nodes},
        edges |-> {GraphEdge(r) : r \in g.edges},
        total_nodes |-> Cardinality(g.nodes),
        total_edges |-> Cardinality(g.edges)]

\* What the builder scanned and fetched for build(root, maxDepth).
BuildTrace(root, maxDepth, refs, ok) ==
    LET g == ExpandFrom(root, maxDepth, refs, ok)
    IN [tag |-> "trace", root |-> root, maxDepth |-> maxDepth,
        expanded |-> g.expanded, attempted |-> g.attempted]

\* The root-node cards without the is_root filter.
DisplayedRootsUnfiltered(g) == g.nodes

\* graphData.nodes.filter((n) => n.is_root): the "Current Issue" cards.
DisplayedRoots(g) == {n \in g.nodes : n.is_root}

\* graphData.edges.map: an edge is rendered when its target is a node of the
\* graph other than the root.
DisplayedEdges(g) ==
    {e \in g.edges : \E n \in g.nodes : n.id = e.target /\ ~n.is_root}

\* The edge render without the test that a target node was found: reading
\* is_root of undefined throws.
EdgeRenderUnchecked(g, e) ==
    LET found == {n \in g.nodes : n.id = e.target}
    IN IF found = {} THEN "TypeError"
       ELSE IF \E n \in found : n.is_root THEN "hidden" ELSE "card"

\* What the map over graphData.edges renders for the edge e: targetNode is
\* nodes.find((n) => n.id === edge.target); null is returned when there is
\* none or it is the root, else the card of the target.
EdgeRender(g, e) ==
    LET found == {n \in g.nodes : n.id = e.target}
    IN IF found = {} THEN "hidden"
       ELSE IF \E n \in found : n.is_root THEN "hidden" ELSE "card"

\* The graph is on screen.
GraphShown == ~depLoading /\ depError = Null /\ graphData # NullData

\* fetchDependencies up to its await; called by the mount effect and by the
\* refresh button, which is disabled while loading.
fetchDependencies ==
    /\ ~depLoading
    /\ currentRepoUrl # "" /\ currentIssueNumber # 0
    /\ depLoading' = TRUE
    /\ depError' = Null
    /\ depReq' = [url |-> "/api/dependencies",
                  repo_url |-> currentRepoUrl,
                  issue_number |-> currentIssueNumber,
                  depth |-> depth,
                  timeout |-> {}]
    /\ UNCHANGED <<issueRefs, fetchable, graphData, depth, depTrace>>

\* The depth select: setDepth(Number(e.target.value)).
setDepth(d) ==
    /\ depth # d
    /\ depth' = d
    /\ UNCHANGED <<issueRefs, fetchable, depLoading, depError, graphData, depReq,
                   depTrace>>

\* The backend built the graph and the reply was parsed.
DepsReplied ==
    /\ depReq # NoReq
    /\ graphData' = build(depReq.issue_number, depReq.depth, issueRefs, fetchable)
    /\ depTrace' = BuildTrace(depReq.issue_number, depReq.depth, issueRefs, fetchable)
    /\ depLoading' = FALSE
    /\ depReq' = NoReq
    /\ UNCHANGED <<issueRefs, fetchable, depError, depth>>

\* A reply with any graph: the issues of fetchable as nodes and an edge for
\* every reference, whether or not its source and target are among the nodes.
DepsRepliedAny ==
    /\ depReq # NoReq
    /\ graphData' = [tag |-> "graph",
                     nodes |-> {GraphNode(n, depReq.issue_number) : n \in fetchable},
                     edges |-> {GraphEdge(r) : r \in issueRefs},
                     total_nodes |-> Cardinality(fetchable),
                     total_edges |-> Cardinality(issueRefs)]
    /\ depTrace' = NoTrace
    /\ depLoading' = FALSE
    /\ depReq' = NoReq
    /\ UNCHANGED <<issueRefs, fetchable, depError, depth>>

\* The reply says success: false.
DepsRefused(e) ==
    /\ depReq # NoReq
    /\ depError' = OrElse(e, "Failed to fetch dependencies")
    /\ depLoading' = FALSE
    /\ depReq' = NoReq
    /\ UNCHANGED <<issueRefs, fetchable, graphData, depth, depTrace>>

\* fetch rejected, or response.json() threw.
DepsFailed ==
    /\ depReq # NoReq
    /\ depError' = "Failed to connect to server"
    /\ depLoading' = FALSE
    /\ depReq' = NoReq
    /\ UNCHANGED <<issueRefs, fetchable, graphData, depth, depTrace>>

DepsIdle ==
    /\ issueRefs = {}
    /\ fetchable = {}
    /\ depLoading = FALSE
    /\ depError = Null
    /\ graphData = NullData
    /\ depth = 1
    /\ depReq = NoReq
    /\ depTrace = NoTrace

\* The tab just mounted for the analysed issue, in any small repository.
DepsInit ==
    /\ issueRefs \in {R \in SUBSET (RepoIssues \X RepoIssues) : Cardinality(R) <= MaxRefs}
    /\ fetchable \in {F \in SUBSET RepoIssues : currentIssueNumber \in F}
    /\ depLoading = FALSE
    /\ depError = Null
    /\ graphData = NullData
    /\ depth = 1
    /\ depReq = NoReq
    /\ depTrace = NoTrace

(***************************************************************************)
(* DuplicateDetector (frontend/src/components/DuplicateDetector.jsx) and   *)
(* the SimilarityRanker behind /api/duplicates.  Scores are in hundredths. *)
(***************************************************************************)

VARIABLES
    dupScores,     \* the similarity of each issue of the repository to the source
    dupThreshold,  \* the threshold the ranker applies
    dupLoading,    \* useState(false)
    dupError,      \* useState(null)
    duplicates,    \* useState(null); the array data.data as [tag, items]
    dupReq         \* the /api/duplicates request awaited by findDuplicates

dupVars == <<dupScores, dupThreshold, dupLoading, dupError, duplicates, dupReq>>

SimilarityScores == {0, 49, 50, 69, 70, 84, 85, 100}

Thresholds == {0, 50}

SimilarityCandidate(n, scores) ==
    [issue_number |-> n, similarity_score |-> scores[n]]

\* c comes before d in the ranking: higher score first, then lower number.
RanksBefore(c, d) ==
    \/ c.similarity_score > d.similarity_score
    \/ c.similarity_score = d.similarity_score /\ c.issue_number < d.issue_number

\* findDuplicates(source, candidates, threshold): the source is excluded,
\* candidates below the threshold are omitted, the rest sorted by score,
\* descending.
RankDuplicates(source, scores, threshold) ==
    LET kept == {SimilarityCandidate(n, scores) :
                    n \in {m \in RepoIssues \ {source} : scores[m] >= threshold}}
    IN [i \in 1..Cardinality(kept) |->
           CHOOSE c \in kept : Cardinality({d \in kept : RanksBefore(d, c)}) = i - 1]

\* getSimilarityColor comparing with > where the code has >=.
getSimilarityColorStrict(score) ==
    IF score > 85
    THEN [bg |-> "bg-red-100", text |-> "text-red-700",
          label |-> "Very Likely Duplicate"]
    ELSE IF score > 70
    THEN [bg |-> "bg-orange-100", text |-> "text-orange-700",
          label |-> "Likely Duplicate"]
    ELSE IF score > 50
    THEN [bg |-> "bg-yellow-100", text |-> "text-yellow-700",
          label |-> "Possibly Related"]
    ELSE [bg |-> "bg-gray-100", text |-> "text-gray-600", label |-> "Low Similarity"]

getSimilarityColor(score) ==
    IF score >= 85
    THEN [bg |-> "bg-red-100", text |-> "text-red-700",
          label |-> "Very Likely Duplicate"]
    ELSE IF score >= 70
    THEN [bg |-> "bg-orange-100", text |-> "text-orange-700",
          label |-> "Likely Duplicate"]
    ELSE IF score >= 50
    THEN [bg |-> "bg-yellow-100", text |-> "text-yellow-700",
          label |-> "Possibly Related"]
    ELSE [bg |-> "bg-gray-100", text |-> "text-gray-600", label |-> "Low Similarity"]

\* The class of the similarity bar of a card.
SimilarityBar(score) ==
    IF score >= 85 THEN "bg-red-500"
    ELSE IF score >= 70 THEN "bg-orange-500"
    ELSE IF score >= 50 THEN "bg-yellow-500"
    ELSE "bg-gray-400"

\* The cards rendered last entry first.
DisplayedDuplicatesReversed(list) ==
    [i \in 1..Len(list) |->
        [issue_number |-> list[Len(list) + 1 - i].issue_number,
         similarity_score |-> list[Len(list) + 1 - i].similarity_score,
         colors |-> getSimilarityColor(list[Len(list) + 1 - i].similarity_score),
         bar |-> SimilarityBar(list[Len(list) + 1 - i].similarity_score)]]

\* duplicates.map((dup, idx) => ...): one card per entry, in the order of
\* the list.
DisplayedDuplicates(list) ==
    [i \in 1..Len(list) |->
        [issue_number |-> list[i].issue_number,
         similarity_score |-> list[i].similarity_score,
         colors |-> getSimilarityColor(list[i].similarity_score),
         bar |-> SimilarityBar(list[i].similarity_score)]]

\* The list is on screen.
DuplicatesShown == ~dupLoading /\ dupError = Null /\ duplicates # NullData

\* findDuplicates up to its await; called by the mount effect and by the
\* refresh button, which is disabled while loading.  issueData is
\* result?.issue_data.
findDuplicates ==
    /\ ~dupLoading
    /\ currentRepoUrl # "" /\ currentIssueNumber # 0 /\ result # NullData
    /\ dupLoading' = TRUE
    /\ dupError' = Null
    /\ dupReq' = [url |-> "/api/duplicates",
                  repo_url |-> currentRepoUrl,
                  issue_number |-> currentIssueNumber,
                  timeout |-> {}]
    /\ UNCHANGED <<dupScores, dupThreshold, duplicates>>

\* The backend ranked the candidates and the reply was parsed.
DuplicatesReplied ==
    /\ dupReq # NoReq
    /\ duplicates' = [tag |-> "array",
                      items |-> RankDuplicates(dupReq.issue_number, dupScores,
                                               dupThreshold)]
    /\ dupLoading' = FALSE
    /\ dupReq' = NoReq
    /\ UNCHANGED <<dupScores, dupThreshold, dupError>>

\* The reply says success: false.
DuplicatesRefused(e) ==
    /\ dupReq # NoReq
    /\ dupError' = OrElse(e, "Failed to find duplicates")
    /\ dupLoading' = FALSE
    /\ dupReq' = NoReq
    /\ UNCHANGED <<dupScores, dupThreshold, duplicates>>

\* fetch rejected, or response.json() threw.
DuplicatesFailed ==
    /\ dupReq # NoReq
    /\ dupError' = "Failed to connect to server"
    /\ dupLoading' = FALSE
    /\ dupReq' = NoReq
    /\ UNCHANGED <<dupScores, dupThreshold, duplicates>>

DuplicatesIdle ==
    /\ dupScores = [n \in RepoIssues |-> 0]
    /\ dupThreshold = 0
    /\ dupLoading = FALSE
    /\ dupError = Null
    /\ duplicates = NullData
    /\ dupReq = NoReq

\* The tab just mounted for the analysed issue, in any small repository.
DuplicatesInit ==
    /\ dupScores \in [RepoIssues -> SimilarityScores]
    /\ dupThreshold \in Thresholds
    /\ dupLoading = FALSE
    /\ dupError = Null
    /\ duplicates = NullData
    /\ dupReq = NoReq

(***************************************************************************)
(* LabelCreator (frontend/src/components/LabelCreator.jsx)                 *)
(*                                                                         *)
(* App mounts the modal while showLabelCreator holds; its useState values  *)
(* exist only while it is mounted and start from their initial values on   *)
(* every mount.                                                            *)
(***************************************************************************)

VARIABLES
    showLabelCreator,   \* App.showLabelCreator
    token,              \* LabelCreator.token
    labelLoading,       \* LabelCreator.loading
    labelResults,       \* LabelCreator.results
    labelError,         \* LabelCreator.error
    selectedLabels,     \* LabelCreator.selectedLabels
    labelReqs,          \* the fetch calls of LabelCreator in flight
    labelSent,          \* number of fetch calls LabelCreator has issued
    browserStorage      \* what localStorage / sessionStorage / cookies hold

labelVars == <<showLabelCreator, token, labelLoading, labelResults, labelError,
               selectedLabels, labelReqs, labelSent, browserStorage>>

MaxLabelRequests == 2

\* What the user can type into the token field.
Tokens == {"", " ", "ghp_a", "ghp_b"}

\* result.analysis.suggested_labels
SuggestedLabels == <<"bug", "ui", "bug">>

\* str.trim() is empty
TrimIsEmpty(str) == \A i \in 1..Len(str) : SubSeq(str, i, i) = " "

\* array.includes(x)
ArrayIncludes(array, x) == \E i \in 1..Len(array) : array[i] = x

\* array.filter(l => l !== x)
RECURSIVE ArrayWithout(_, _)
ArrayWithout(array, x) ==
    IF array = << >> THEN << >>
    ELSE IF Head(array) = x THEN ArrayWithout(Tail(array), x)
    ELSE <<Head(array)>> \o ArrayWithout(Tail(array), x)

\* The bodies data of a /api/create-labels reply.
LabelReplies ==
    {[success |-> TRUE, error |-> Null,
      data |-> [tag |-> "results", created |-> c, failed |-> f]] :
         c \in {<< >>, <<"bug">>}, f \in {<< >>, <<"ui">>}}
    \cup {[success |-> FALSE, error |-> e, data |-> NullData] :
             e \in {Null, "Bad credentials"}}

\* The useState initial values of a mount of LabelCreator.
LabelCreatorMounted ==
    /\ token' = ""
    /\ labelLoading' = FALSE
    /\ labelResults' = NullData
    /\ labelError' = Null
    /\ selectedLabels' = SuggestedLabels

\* The "Create Labels on GitHub" button of App.
openLabelCreator ==
    /\ ~showLabelCreator
    /\ result # NullData
    /\ showLabelCreator' = TRUE
    /\ LabelCreatorMounted
    /\ UNCHANGED <<labelReqs, labelSent, browserStorage>>

\* setToken that also keeps the token in localStorage.
setTokenRemembered(t) ==
    /\ showLabelCreator
    /\ labelResults = NullData
    /\ token' = t
    /\ browserStorage' = browserStorage \cup {t}
    /\ UNCHANGED <<showLabelCreator, labelLoading, labelResults, labelError,
                   selectedLabels, labelReqs, labelSent>>

\* onChange of the token field (rendered while there are no results).
setToken(t) ==
    /\ showLabelCreator
    /\ labelResults = NullData
    /\ token' = t
    /\ UNCHANGED <<showLabelCreator, labelLoading, labelResults, labelError,
                   selectedLabels, labelReqs, labelSent, browserStorage>>

\* An updater that empties the selection when it unselects a label.
toggleLabelUpdaterClearing(prev, label) ==
    IF ArrayIncludes(prev, label) THEN << >> ELSE Append(prev, label)

\* The updater toggleLabel hands to setSelectedLabels.
toggleLabelUpdater(prev, label) ==
    IF ArrayIncludes(prev, label) THEN ArrayWithout(prev, label) ELSE Append(prev, label)

\* A click on the button of a suggested label.
toggleLabel(label) ==
    /\ showLabelCreator
    /\ labelResults = NullData
    /\ selectedLabels' = toggleLabelUpdater(selectedLabels, label)
    /\ UNCHANGED <<showLabelCreator, token, labelLoading, labelResults, labelError,
                   labelReqs, labelSent, browserStorage>>

\* createLabels without its two checks, behind a button that is disabled
\* only while loading.
createLabelsUnchecked ==
    /\ showLabelCreator
    /\ labelResults = NullData
    /\ ~labelLoading
    /\ labelSent < MaxLabelRequests
    /\ labelLoading' = TRUE
    /\ labelError' = Null
    /\ labelReqs' = labelReqs \cup
           {[id |-> labelSent + 1, url |-> "/api/create-labels",
             body |-> [repo_url |-> currentRepoUrl,
                       labels |-> selectedLabels,
                       github_token |-> token],
             mounted |-> TRUE]}
    /\ labelSent' = labelSent + 1
    /\ UNCHANGED <<showLabelCreator, token, labelResults, selectedLabels,
                   browserStorage>>

\* A click on the create button, which is disabled while loading, while the
\* token is blank and while no label is selected: createLabels up to its await.
createLabels ==
    /\ showLabelCreator
    /\ labelResults = NullData
    /\ ~(labelLoading \/ TrimIsEmpty(token) \/ Len(selectedLabels) = 0)
    /\ labelSent < MaxLabelRequests
    /\ IF TrimIsEmpty(token)
       THEN /\ labelError' = "Please enter your GitHub Personal Access Token"
            /\ UNCHANGED <<labelLoading, labelReqs, labelSent>>
       ELSE IF Len(selectedLabels) = 0
       THEN /\ labelError' = "Please select at least one label to create"
            /\ UNCHANGED <<labelLoading, labelReqs, labelSent>>
       ELSE /\ labelLoading' = TRUE
            /\ labelError' = Null
            /\ labelReqs' = labelReqs \cup
                   {[id |-> labelSent + 1, url |-> "/api/create-labels",
                     body |-> [repo_url |-> currentRepoUrl,
                               labels |-> selectedLabels,
                               github_token |-> token],
                     mounted |-> TRUE]}
            /\ labelSent' = labelSent + 1
    /\ UNCHANGED <<showLabelCreator, token, labelResults, selectedLabels,
                   browserStorage>>

\* The fetch of a mounted LabelCreator resolved with a body.
LabelsReplied ==
    \E req \in labelReqs, data \in LabelReplies :
        /\ req.mounted
        /\ labelReqs' = labelReqs \ {req}
        /\ IF data.success
           THEN /\ labelResults' = data.data
                /\ UNCHANGED labelError
           ELSE /\ labelError' = OrElse(data.error, "Failed to create labels")
                /\ UNCHANGED labelResults
        /\ labelLoading' = FALSE
        /\ UNCHANGED <<showLabelCreator, token, selectedLabels, labelSent,
                       browserStorage>>

\* The fetch of a mounted LabelCreator threw.
LabelsFailed ==
    \E req \in labelReqs :
        /\ req.mounted
        /\ labelReqs' = labelReqs \ {req}
        /\ labelError' = "Failed to connect to server"
        /\ labelLoading' = FALSE
        /\ UNCHANGED <<showLabelCreator, token, labelResults, selectedLabels,
                       labelSent, browserStorage>>

\* A fetch settled after its LabelCreator was unmounted: its state updates
\* reach no component.
LabelsSettledUnmounted ==
    \E req \in labelReqs :
        /\ ~req.mounted
        /\ labelReqs' = labelReqs \ {req}
        /\ UNCHANGED <<showLabelCreator, token, labelLoading, labelResults,
                       labelError, selectedLabels, labelSent, browserStorage>>

\* onClose: App sets showLabelCreator to false and the modal is unmounted.
onClose ==
    /\ showLabelCreator
    /\ showLabelCreator' = FALSE
    /\ LabelCreatorMounted
    /\ labelReqs' = {[req EXCEPT !.mounted = FALSE] : req \in labelReqs}
    /\ UNCHANGED <<labelSent, browserStorage>>

LabelsIdle ==
    /\ showLabelCreator = FALSE
    /\ token = ""
    /\ labelLoading = FALSE
    /\ labelResults = NullData
    /\ labelError = Null
    /\ selectedLabels = SuggestedLabels
    /\ labelReqs = {}
    /\ labelSent = 0
    /\ browserStorage = {}

(***************************************************************************)
(* InputForm (frontend/src/components/InputForm.jsx)                       *)
(*                                                                         *)
(* App renders the form while not loading, so a submit that App accepts    *)
(* unmounts it and the next mount starts from the useState initial values. *)
(***************************************************************************)

VARIABLES
    formRepoUrl,       \* InputForm.repoUrl
    formIssueNumber,   \* InputForm.issueNumber (the text of the field)
    validationError    \* InputForm.validationError

formVars == <<formRepoUrl, formIssueNumber, validationError>>

\* The characters of a string, and the string of a sequence of characters.
Chars(str) == [i \in 1..Len(str) |-> SubSeq(str, i, i)]

RECURSIVE Str(_)
Str(chars) == IF chars = << >> THEN "" ELSE Head(chars) \o Str(Tail(chars))

\* str.trim()
StrTrim(str) == Str(Trim(Chars(str)))

\* str.startsWith(prefix)
StartsWith(str, prefix) ==
    Len(str) >= Len(prefix) /\ SubSeq(str, 1, Len(prefix)) = prefix

WordChars == "abcdefghijklmnopqrstuvwxyzABCDEFGHIJKLMNOPQRSTUVWXYZ0123456789_"

\* c is matched by [\w.-]
NameChar(c) ==
    c = "." \/ c = "-" \/ \E i \in 1..Len(WordChars) : SubSeq(WordChars, i, i) = c

\* str is matched by [\w.-]+
Name(str) ==
    Len(str) > 0 /\ \A i \in 1..Len(str) : NameChar(SubSeq(str, i, i))

\* /^https?:\/\/github\.com\/[\w.-]+\/[\w.-]+\/?$/.test(str)
PatternTest(str) ==
    \E scheme \in {"http", "https"} :
        LET prefix == scheme \o "://github.com/"
        IN /\ StartsWith(str, prefix)
           /\ \E i \in (Len(prefix) + 1)..Len(str), j \in (Len(prefix) + 1)..Len(str) :
                 /\ i + 2 <= j
                 /\ Name(SubSeq(str, Len(prefix) + 1, i))
                 /\ SubSeq(str, i + 1, i + 1) = "/"
                 /\ Name(SubSeq(str, i + 2, j))
                 /\ \/ j = Len(str)
                    \/ j + 1 = Len(str) /\ SubSeq(str, j + 1, j + 1) = "/"

\* validateUrl(url)
validateUrl(url) == PatternTest(StrTrim(url))

\* parseInt(str, 10) with its sign: [nan, value].
ParseIntSigned(str) ==
    LET s      == Chars(str)
        first  == CHOOSE i \in 1..(Len(s) + 1) :
                     /\ \A j \in 1..(i - 1) : s[j] = " "
                     /\ i <= Len(s) => s[i] # " "
        signed == first <= Len(s) /\ s[first] \in {"+", "-"}
        from   == IF signed THEN first + 1 ELSE first
        stop   == CHOOSE i \in from..(Len(s) + 1) :
                     /\ \A j \in from..(i - 1) : s[j] \in Range(DigitChars)
                     /\ i <= Len(s) => s[i] \notin Range(DigitChars)
        value  == DecimalValue(SubSeq(s, from, stop - 1))
    IN IF stop = from THEN [nan |-> TRUE, value |-> 0]
       ELSE [nan |-> FALSE,
             value |-> IF signed /\ s[first] = "-" THEN 0 - value ELSE value]

\* What the user can have in the repository field.
FormUrls ==
    {"", " https://github.com/a/b ", "http://github.com/c/d/",
     "https://github.com/a", "https://gitlab.com/a/b", "https://github.com/a/b?x"}

\* What the user can have in the issue number field.
FormIssueTexts == {"", "0", "-1", "x", "1x", " 2"}

\* exampleRepos[0]; the other two entries differ in their literals only.
ExampleRepos == {[url |-> "https://github.com/facebook/react", issue |-> 28850]}

\* The useState initial values of a mount of InputForm.
InputFormMounted ==
    /\ formRepoUrl' = ""
    /\ formIssueNumber' = ""
    /\ validationError' = ""

\* onChange of the repository field.
setRepoUrl(url) ==
    /\ ~isLoading
    /\ formRepoUrl' = url
    /\ UNCHANGED <<formIssueNumber, validationError>>

\* onChange of the issue number field.
setIssueNumber(text) ==
    /\ ~isLoading
    /\ formIssueNumber' = text
    /\ UNCHANGED <<formRepoUrl, validationError>>

fillExample(example) ==
    /\ ~isLoading
    /\ formRepoUrl' = example.url
    /\ formIssueNumber' = ToString(example.issue)
    /\ validationError' = ""

\* handleSubmit that hands the field to onSubmit as it was typed.
handleSubmitUntrimmed ==
    /\ ~isLoading
    /\ IF StrTrim(formRepoUrl) = ""
       THEN /\ validationError' = "Please enter a GitHub repository URL"
            /\ UNCHANGED <<formRepoUrl, formIssueNumber, appVars>>
       ELSE IF ~validateUrl(formRepoUrl)
       THEN /\ validationError' =
                   "Invalid URL format. Example: https://github.com/facebook/react"
            /\ UNCHANGED <<formRepoUrl, formIssueNumber, appVars>>
       ELSE LET issueNum == ParseIntSigned(formIssueNumber)
            IN IF formIssueNumber = "" \/ issueNum.nan \/ issueNum.value <= 0
               THEN /\ validationError' =
                           "Please enter a valid issue number (positive integer)"
                    /\ UNCHANGED <<formRepoUrl, formIssueNumber, appVars>>
               ELSE /\ handleAnalyze(formRepoUrl, issueNum.value)
                    /\ InputFormMounted

\* handleSubmit; onSubmit is App's handleAnalyze, which turns loading on and
\* so unmounts the form.
handleSubmit ==
    /\ ~isLoading
    /\ IF StrTrim(formRepoUrl) = ""
       THEN /\ validationError' = "Please enter a GitHub repository URL"
            /\ UNCHANGED <<formRepoUrl, formIssueNumber, appVars>>
       ELSE IF ~validateUrl(formRepoUrl)
       THEN /\ validationError' =
                   "Invalid URL format. Example: https://github.com/facebook/react"
            /\ UNCHANGED <<formRepoUrl, formIssueNumber, appVars>>
       ELSE LET issueNum == ParseIntSigned(formIssueNumber)
            IN IF formIssueNumber = "" \/ issueNum.nan \/ issueNum.value <= 0
               THEN /\ validationError' =
                           "Please enter a valid issue number (positive integer)"
                    /\ UNCHANGED <<formRepoUrl, formIssueNumber, appVars>>
               ELSE /\ handleAnalyze(StrTrim(formRepoUrl), issueNum.value)
                    /\ InputFormMounted

FormIdle ==
    /\ formRepoUrl = ""
    /\ formIssueNumber = ""
    /\ validationError = ""

(***************************************************************************)
(* CrossRepoSimilar (frontend/src/components/CrossRepoSimilar.jsx) and     *)
(* IssueRequest.get_owner_repo (README.md)                                 *)
(***************************************************************************)

VARIABLES
    crossLoading,   \* useState(false)
    crossError,     \* useState(null)
    crossResults,   \* useState(null)
    crossReq        \* the /api/similar-cross-repo request awaited by findSimilar

crossVars == <<crossLoading, crossError, crossResults, crossReq>>

\* str.replace(pattern, replacement) for a string pattern: the first
\* occurrence only.
StrReplace(str, pattern, replacement) ==
    IF Includes(str, pattern)
    THEN LET i == CHOOSE k \in 1..(Len(str) - Len(pattern) + 1) :
                     /\ SubSeq(str, k, k + Len(pattern) - 1) = pattern
                     /\ \A h \in 1..(k - 1) :
                            SubSeq(str, h, h + Len(pattern) - 1) # pattern
         IN SubSeq(str, 1, i - 1) \o replacement
                \o SubSeq(str, i + Len(pattern), Len(str))
    ELSE str

\* array.slice(0, n)
SliceTo(array, n) == SubSeq(array, 1, IF n < Len(array) THEN n ELSE Len(array))

\* array.join(sep) for an array of strings as character sequences
RECURSIVE Join(_, _)
Join(array, sep) ==
    IF array = << >> THEN ""
    ELSE IF Len(array) = 1 THEN Str(array[1])
    ELSE Str(array[1]) \o sep \o Join(Tail(array), sep)

\* getExcludeRepo()
getExcludeRepo(repoUrl) ==
    IF repoUrl = "" THEN ""
    ELSE Join(SliceTo(Split(Chars(StrReplace(repoUrl, "https://github.com/", "")),
                            "/"), 2), "/")

\* str.rstrip("/")
RECURSIVE RStripSlash(_)
RStripSlash(str) ==
    IF Len(str) > 0 /\ SubSeq(str, Len(str), Len(str)) = "/"
    THEN RStripSlash(SubSeq(str, 1, Len(str) - 1))
    ELSE str

\* IssueRequest.get_owner_repo: parts[-2], parts[-1]
get_owner_repo(repo_url) ==
    LET parts == Split(Chars(RStripSlash(StrTrim(repo_url))), "/")
    IN <<Str(parts[Len(parts) - 1]), Str(parts[Len(parts)])>>

\* Repository URLs a user can submit.
CrossRepoUrls ==
    {u \in {"https://github.com/a/b", "https://github.com/a/b/",
            "http://github.com/c/d", "http://github.com/c/d/",
            "https://github.com/vercel/next.js", "https://github.com/a-b/c_d/",
            "https://github.com/a"} : validateUrl(u)}

IssueTitles == {"", "Crash on start"}

IssueBodies == {Null, "", "It crashes."}

\* App after handleAnalyze(repo_url, 1) completed with a result for an issue
\* with this title and body.
AppAnalysedIssue(repo_url, title, body) ==
    /\ isLoading = FALSE
    /\ result = [tag |-> "data", success |-> TRUE,
                 issue_data |-> [repo_url |-> repo_url, issue_number |-> 1,
                                 title |-> title, body |-> body],
                 analysis |-> [type |-> "bug", priority_score |-> 1,
                               confidence_score |-> 100],
                 error |-> Null]
    /\ error = Null
    /\ currentRepoUrl = repo_url
    /\ currentIssueNumber = 1
    /\ appReq = NoReq
    /\ appSettled = NotSettled
    /\ appSent = 1

\* Bodies of a reply to /api/similar-cross-repo.
SimilarReplies ==
    {[success |-> TRUE, error |-> Null, data |-> [tag |-> "results", count |-> n]] :
         n \in {0, 1}}
    \cup {[success |-> FALSE, error |-> e, data |-> NullData] : e \in ServerErrors}

\* findSimilar up to its await; called by the mount effect and by the
\* refresh button, which is disabled while loading.
findSimilar ==
    /\ ~crossLoading
    /\ result # NullData
    /\ result.issue_data.title # ""
    /\ crossLoading' = TRUE
    /\ crossError' = Null
    /\ crossReq' = [url |-> "/api/similar-cross-repo",
                    issue_title |-> result.issue_data.title,
                    issue_body |-> OrElse(result.issue_data.body, ""),
                    exclude_repo |-> getExcludeRepo(currentRepoUrl),
                    timeout |-> {}]
    /\ UNCHANGED crossResults

\* The reply was parsed.
SimilarReplied ==
    /\ crossReq # NoReq
    /\ \E data \in SimilarReplies :
          IF data.success
          THEN crossResults' = data.data /\ UNCHANGED crossError
          ELSE /\ crossError' = OrElse(data.error, "Failed to find similar issues")
               /\ UNCHANGED crossResults
    /\ crossLoading' = FALSE
    /\ crossReq' = NoReq

\* fetch rejected, or response.json() threw.
SimilarFailed ==
    /\ crossReq # NoReq
    /\ crossError' = "Failed to connect to server"
    /\ crossLoading' = FALSE
    /\ crossReq' = NoReq
    /\ UNCHANGED crossResults

CrossIdle ==
    /\ crossLoading = FALSE
    /\ crossError = Null
    /\ crossResults = NullData
    /\ crossReq = NoReq

(***************************************************************************)
(* Specifications                                                          *)
(***************************************************************************)

vars == <<appVars, svcVars, parseVars, batchVars, depVars, dupVars, errVars, labelVars, formVars, crossVars>>

Init ==
    AppInit /\ SvcInit /\ ParseIdle /\ BatchIdle /\ DepsIdle /\ DuplicatesIdle
    /\ ErrIdle /\ LabelsIdle /\ FormIdle /\ CrossIdle

notApp == <<svcVars, parseVars, batchVars, depVars, dupVars, errVars, labelVars, formVars, crossVars>>

NextApp ==
    \/ UNCHANGED notApp /\ \E u \in RepoUrls, n \in IssueNumbers : handleAnalyze(u, n)
    \/ UNCHANGED notApp /\ AnalyzeReplied
    \/ UNCHANGED notApp /\ \E err \in AxiosErrors : AnalyzeFailed(err)
    \/ UNCHANGED notApp /\ handleReset

SpecApp == Init /\ [][NextApp]_vars

notSvc == <<appVars, parseVars, batchVars, depVars, dupVars, errVars, labelVars, formVars, crossVars>>

NextSvc ==
    \/ UNCHANGED notSvc /\ \E r \in Requests, u \in RepoUrls, n \in IssueNumbers :
                              analyze_issue(r, u, n)
    \/ UNCHANGED notSvc /\ \E r \in Requests, a \in GeminiOutputs :
                              analyze_issue_resume(r, a)
    \/ UNCHANGED notSvc /\ \E r \in Requests : analyze_issue_raise(r)

SpecSvc == Init /\ [][NextSvc]_vars

notParse == <<appVars, svcVars, batchVars, depVars, dupVars, errVars, labelVars, formVars, crossVars>>

InitParse ==
    AppInit /\ SvcInit /\ ParseInit /\ BatchIdle /\ DepsIdle /\ DuplicatesIdle
    /\ ErrIdle /\ LabelsIdle /\ FormIdle /\ CrossIdle

NextParse ==
    \/ UNCHANGED notParse /\ ParseAttempt1
    \/ UNCHANGED notParse /\ ParseAttempt2
    \/ UNCHANGED notParse /\ ParseAttempt3

SpecParse == InitParse /\ [][NextParse]_vars

notBatch == <<appVars, svcVars, parseVars, depVars, dupVars, errVars, labelVars, formVars, crossVars>>

InitBatch ==
    AppAnalysed(1) /\ SvcInit /\ ParseIdle /\ BatchInit /\ DepsIdle /\ DuplicatesIdle
    /\ ErrIdle /\ LabelsIdle /\ FormIdle /\ CrossIdle

NextBatch ==
    \/ UNCHANGED notBatch /\ analyzeBatch
    \/ UNCHANGED notBatch /\ BatchReplied
    \/ UNCHANGED notBatch /\ BatchFailed

SpecBatch == InitBatch /\ [][NextBatch]_vars

InitBatchFail ==
    AppAnalysed(1) /\ SvcInit /\ ParseIdle /\ BatchFailInit /\ DepsIdle /\ DuplicatesIdle
    /\ ErrIdle /\ LabelsIdle /\ FormIdle /\ CrossIdle

SpecBatchFail == InitBatchFail /\ [][NextBatch]_vars

notDeps == <<appVars, svcVars, parseVars, batchVars, dupVars, errVars, labelVars, formVars, crossVars>>

InitDeps ==
    AppAnalysed(1) /\ SvcInit /\ ParseIdle /\ BatchIdle /\ DepsInit /\ DuplicatesIdle
    /\ ErrIdle /\ LabelsIdle /\ FormIdle /\ CrossIdle

NextDeps ==
    \/ UNCHANGED notDeps /\ fetchDependencies
    \/ UNCHANGED notDeps /\ \E d \in DepthOptions : setDepth(d)
    \/ UNCHANGED notDeps /\ DepsReplied
    \/ UNCHANGED notDeps /\ \E e \in ServerErrors : DepsRefused(e)
    \/ UNCHANGED notDeps /\ DepsFailed

SpecDeps == InitDeps /\ [][NextDeps]_vars

\* The component against a server free to send any graph.
NextDepsAny ==
    \/ UNCHANGED notDeps /\ fetchDependencies
    \/ UNCHANGED notDeps /\ \E d \in DepthOptions : setDepth(d)
    \/ UNCHANGED notDeps /\ DepsReplied
    \/ UNCHANGED notDeps /\ DepsRepliedAny
    \/ UNCHANGED notDeps /\ \E e \in ServerErrors : DepsRefused(e)
    \/ UNCHANGED notDeps /\ DepsFailed

SpecDepsAny == InitDeps /\ [][NextDepsAny]_vars

notDuplicates == <<appVars, svcVars, parseVars, batchVars, depVars, errVars, labelVars, formVars, crossVars>>

InitDuplicates ==
    AppAnalysed(1) /\ SvcInit /\ ParseIdle /\ BatchIdle /\ DepsIdle /\ DuplicatesInit
    /\ ErrIdle /\ LabelsIdle /\ FormIdle /\ CrossIdle

NextDuplicates ==
    \/ UNCHANGED notDuplicates /\ findDuplicates
    \/ UNCHANGED notDuplicates /\ DuplicatesReplied
    \/ UNCHANGED notDuplicates /\ \E e \in ServerErrors : DuplicatesRefused(e)
    \/ UNCHANGED notDuplicates /\ DuplicatesFailed

SpecDuplicates == InitDuplicates /\ [][NextDuplicates]_vars

notErr == <<appVars, svcVars, parseVars, batchVars, depVars, dupVars, labelVars, formVars, crossVars>>

NextErr ==
    \/ UNCHANGED notErr /\ \E err \in ErrorValues : ErrorDisplay(err)
    \/ UNCHANGED notErr /\ ErrorDisplayAgain

SpecErr == Init /\ [][NextErr]_vars

notLabels == <<appVars, svcVars, parseVars, batchVars, depVars, dupVars, errVars, formVars, crossVars>>

InitLabels ==
    AppAnalysed(1) /\ SvcInit /\ ParseIdle /\ BatchIdle /\ DepsIdle /\ DuplicatesIdle
    /\ ErrIdle /\ LabelsIdle /\ FormIdle /\ CrossIdle

NextLabels ==
    \/ UNCHANGED notLabels /\ openLabelCreator
    \/ UNCHANGED notLabels /\ \E t \in Tokens : setToken(t)
    \/ UNCHANGED notLabels /\ \E i \in 1..Len(SuggestedLabels) : toggleLabel(SuggestedLabels[i])
    \/ UNCHANGED notLabels /\ createLabels
    \/ UNCHANGED notLabels /\ LabelsReplied
    \/ UNCHANGED notLabels /\ LabelsFailed
    \/ UNCHANGED notLabels /\ LabelsSettledUnmounted
    \/ UNCHANGED notLabels /\ onClose

SpecLabels == InitLabels /\ [][NextLabels]_vars

notForm == <<svcVars, parseVars, batchVars, depVars, dupVars, errVars, labelVars, crossVars>>

NextForm ==
    \/ UNCHANGED notForm /\ UNCHANGED appVars /\ \E url \in FormUrls : setRepoUrl(url)
    \/ UNCHANGED notForm /\ UNCHANGED appVars /\ \E text \in FormIssueTexts : setIssueNumber(text)
    \/ UNCHANGED notForm /\ UNCHANGED appVars /\ \E example \in ExampleRepos : fillExample(example)
    \/ UNCHANGED notForm /\ handleSubmit
    \/ UNCHANGED notForm /\ UNCHANGED formVars /\ AnalyzeReplied
    \/ UNCHANGED notForm /\ UNCHANGED formVars /\ \E err \in AxiosErrors : AnalyzeFailed(err)
    \/ UNCHANGED notForm /\ UNCHANGED formVars /\ handleReset

SpecForm == Init /\ [][NextForm]_vars

notCross == <<appVars, svcVars, parseVars, batchVars, depVars, dupVars, errVars,
              labelVars, formVars>>

InitCross ==
    /\ \E repo_url \in CrossRepoUrls, title \in IssueTitles, body \in IssueBodies :
          AppAnalysedIssue(repo_url, title, body)
    /\ SvcInit /\ ParseIdle /\ BatchIdle /\ DepsIdle /\ DuplicatesIdle
    /\ ErrIdle /\ LabelsIdle /\ FormIdle /\ CrossIdle

NextCross ==
    \/ UNCHANGED notCross /\ findSimilar
    \/ UNCHANGED notCross /\ SimilarReplied
    \/ UNCHANGED notCross /\ SimilarFailed

SpecCross == InitCross /\ [][NextCross]_vars

(***************************************************************************)
(* Claims                                                                  *)
(***************************************************************************)

\* C1: every analysis record shown as a successful result has priority_score
\* in 1..5, confidence_score in [0,1] and a type of the enumeration, and no
\* out-of-contract value is shown under a default badge.
C1_ShownRecordsAreValid ==
    result # NullData =>
        /\ ValidAnalysis(result.analysis)
        /\ PriorityBadge(result.analysis.priority_score) = "Medium"
              => result.analysis.priority_score = 3
        /\ TypeBadge(result.analysis.type) = "FileText"
              => result.analysis.type = "other"

StoredFor(r, args) ==
    \E q \in Requests \ {r} :
        svcPc[q] = "done" /\ svcArgs[q] = args /\ ~svcRet[q].from_cache

\* C3: once an analysis has been stored for an issue, every later
\* analyze_issue call for the same issue is served from the cache: it returns
\* a record that was stored for that issue and invokes the generator zero times.
C3_CachedCallsAreIdempotent ==
    /\ [](\A r \in Requests :
            (svcPc[r] = "done" /\ svcRet[r].from_cache) =>
                /\ callsBy[r] = 0
                /\ \E q \in Requests \ {r} :
                      /\ svcPc[q] = "done" /\ ~svcRet[q].from_cache
                      /\ svcArgs[q] = svcArgs[r]
                      /\ svcRet[q].analysis = svcRet[r].analysis)
    /\ [][\A r \in Requests :
            (svcPc[r] = "idle" /\ svcPc'[r] # "idle" /\ StoredFor(r, svcArgs'[r])) =>
                /\ svcPc'[r] = "done"
                /\ svcRet'[r].from_cache
                /\ callsBy' = callsBy]_vars

\* A record was stored for an issue, calls for other issues followed, and a
\* later call for the first issue was served from the cache.
C3_Witness ==
    \E r1, r2, r3 \in Requests :
        /\ svcPc[r1] = "done" /\ ~svcRet[r1].from_cache
        /\ svcPc[r2] = "done" /\ svcArgs[r2] # svcArgs[r1]
        /\ svcPc[r3] = "done" /\ svcRet[r3].from_cache
        /\ svcArgs[r3] = svcArgs[r1]
        /\ svcRet[r3].analysis = svcRet[r1].analysis

\* C5: result and error are never both set, and the completion of an analyze
\* request sets exactly one of them: result (with issue data and analysis) on
\* a reply with success = true, a non-empty error message otherwise.
C5_ExactlyOneOfResultAndError ==
    /\ [](~(result # NullData /\ error # Null))
    /\ [][(appReq # NoReq /\ appReq' = NoReq) =>
            IF appSettled'.kind = "reply" /\ appSettled'.data.success
            THEN /\ result' = appSettled'.data
                 /\ result'.issue_data # NullData
                 /\ result'.analysis # NullData
                 /\ error' = Null
            ELSE /\ result' = NullData
                 /\ error' # Null
                 /\ error' # ""]_vars

\* A second submit completed with a result, result set and error null.
C5_Witness ==
    /\ appSent >= 2
    /\ ~isLoading
    /\ appSettled.kind = "reply"
    /\ result # NullData
    /\ error = Null

\* Opening minus closing braces of t[i..j].
Depth(t, i, j) ==
    Cardinality({k \in i..j : t[k] = "{"}) - Cardinality({k \in i..j : t[k] = "}"})

\* The first balanced top-level {...} substring of a text, as a set: from the
\* first opening brace to the brace that closes it (empty when there is none).
FirstBalanced(t) ==
    LET opens == {i \in 1..Len(t) : t[i] = "{"}
    IN  IF opens = {}
        THEN {}
        ELSE LET i == Min(opens)
                 closes == {j \in i..Len(t) : Depth(t, i, j) = 0}
             IN  IF closes = {} THEN {} ELSE {SubSeq(t, i, Min(closes))}

\* The three repair stages of the claim, applied to a text: the values of the
\* stages that succeed, by stage number.
StageValue(t, k) ==
    CASE k = 1 -> IF JsonLoads(t).ok THEN {JsonLoads(t).value} ELSE {}
      [] k = 2 -> IF ReSearch(t).found /\ JsonLoads(ReSearch(t).group).ok
                  THEN {JsonLoads(ReSearch(t).group).value} ELSE {}
      [] k = 3 -> {JsonLoads(b).value : b \in {x \in FirstBalanced(t) : JsonLoads(x).ok}}

\* C7: the parser tries (1) the whole text, (2) the interior of a fenced
\* block, (3) the first balanced {...} substring, each only after the earlier
\* ones failed; it returns the value of the first stage that succeeds and
\* raises only when all three have failed.
C7_ThreeStagesInOrder ==
    LET good == {k \in 1..3 : StageValue(rawText, k) # {}}
    IN  /\ parseTried \in {<< >>, <<1>>, <<1, 2>>, <<1, 2, 3>>}
        /\ parsePc = "raised" => good = {} /\ parseTried = <<1, 2, 3>>
        /\ parsePc = "returned" =>
              /\ good # {}
              /\ parseTried = [k \in 1..Min(good) |-> k]
              /\ {parseOut} = StageValue(rawText, Min(good))

OpensNoFence(prose) == \A i \in 1..Len(prose) : ContentStart(prose, i) = {}

DenotedBy(part) ==
    IF "-" \in Range(part)
    THEN LET pieces == Split(part, "-")
             start  == ParseInt(Trim(pieces[1]))
             end    == ParseInt(Trim(pieces[2]))
         IN IF start # NaN /\ end # NaN THEN start..end ELSE {}
    ELSE LET num == ParseInt(part) IN IF num # NaN THEN {num} ELSE {}

DenotedParts(input) ==
    LET split == Split(input, ",")
    IN [k \in 1..Len(split) |-> DenotedBy(Trim(split[k]))]

\* Where x first appears among the parts: the part, then the place in it.
FirstPart(parts, x) == CHOOSE k \in 1..Len(parts) :
    x \in parts[k] /\ \A j \in 1..(k - 1) : x \notin parts[j]

AppearsBefore(parts, x, y) ==
    \/ FirstPart(parts, x) < FirstPart(parts, y)
    \/ FirstPart(parts, x) = FirstPart(parts, y) /\ x < y

NoDuplicates(s) == \A i, j \in 1..Len(s) : s[i] = s[j] => i = j

\* C4: for an input denoting more than 10 distinct issue numbers,
\* parseIssueNumbers yields exactly the first 10 distinct numbers in order of
\* first appearance, and the request issued carries that list: no request
\* carries a duplicate or more than 10 numbers.
C4_FirstTenDistinct ==
    LET r     == parseIssueNumbers(issueInput)
        parts == DenotedParts(issueInput)
        U     == UNION Range(parts)
    IN /\ Cardinality(U) > MaxBatchIssues =>
            /\ Len(r) = MaxBatchIssues
            /\ NoDuplicates(r)
            /\ Range(r) \subseteq U
            /\ \A i \in 1..(Len(r) - 1) : AppearsBefore(parts, r[i], r[i+1])
            /\ \A y \in U \ Range(r) : AppearsBefore(parts, r[Len(r)], y)
       /\ batchReq # NoReq =>
            /\ batchReq.issue_numbers = r
            /\ NoDuplicates(batchReq.issue_numbers)
            /\ Len(batchReq.issue_numbers) <= MaxBatchIssues

\* A request is in flight for an input that denotes more than 10 numbers,
\* names one of them in two parts, and lost a number to the cap.
C4_Witness ==
    LET parts == DenotedParts(issueInput)
    IN /\ batchReq # NoReq
       /\ Cardinality(UNION Range(parts)) > MaxBatchIssues
       /\ \E j, k \in 1..Len(parts) : j # k /\ parts[j] \cap parts[k] # {}
       /\ Len(batchReq.issue_numbers) = MaxBatchIssues
       /\ UNION Range(parts) \ Range(batchReq.issue_numbers) # {}

\* C6: every network call the frontend has in flight carries an explicit
\* timeout, so that loading returns to false whatever the server does.
C6_EveryCallHasTimeout ==
    \A req \in {appReq, batchReq, depReq, dupReq} :
        req # NoReq => req.timeout # {}

NodeIds(g) == {n.id : n \in g.nodes}

\* C9: every dependency graph constructed and displayed has exactly one node
\* with is_root = true, shown as the one "Current Issue" card, and the source
\* and target of every edge, rendered or not, are nodes of the graph.
C9_OneRootAndClosedEdges ==
    graphData # NullData =>
        /\ Cardinality({n \in graphData.nodes : n.is_root}) = 1
        /\ Cardinality(DisplayedRoots(graphData)) = 1
        /\ \A n \in DisplayedRoots(graphData) : n.id = currentIssueNumber
        /\ \A e \in graphData.edges \cup DisplayedEdges(graphData) :
               e.source \in NodeIds(graphData) /\ e.target \in NodeIds(graphData)

\* A graph of at least two nodes is on screen, built where the root's
\* text references an issue that could not be fetched and another node
\* references the root back.
C9_Witness ==
    /\ GraphShown
    /\ Cardinality(graphData.nodes) >= 2
    /\ \E r \in issueRefs : r[1] = currentIssueNumber /\ r[2] \notin fetchable
    /\ \E e \in graphData.edges :
          e.target = currentIssueNumber /\ e.source # currentIssueNumber

NonIncreasing(list) ==
    \A i, j \in 1..Len(list) :
        i < j => list[i].similarity_score >= list[j].similarity_score

\* C10: in every list of duplicate candidates produced and displayed for a
\* source issue, the scores are non-increasing from the first entry to the
\* last and the source issue's own number is no candidate.
C10_RankedWithoutSource ==
    duplicates # NullData =>
        /\ NonIncreasing(duplicates.items)
        /\ NonIncreasing(DisplayedDuplicates(duplicates.items))
        /\ \A i \in 1..Len(duplicates.items) :
               /\ duplicates.items[i].issue_number # currentIssueNumber
               /\ DisplayedDuplicates(duplicates.items)[i].issue_number
                      # currentIssueNumber

\* A list of two candidates with different scores is on screen; the source
\* issue itself scores highest in the repository.
C10_Witness ==
    /\ DuplicatesShown
    /\ Len(duplicates.items) >= 2
    /\ duplicates.items[1].similarity_score
           > duplicates.items[Len(duplicates.items)].similarity_score
    /\ \A n \in RepoIssues : dupScores[currentIssueNumber] >= dupScores[n]

\* C11: in a batch, an issue whose fetch or analysis fails gets a failed
\* entry with an error message, every other requested issue still gets its
\* own entry, each entry is shown as its own card, and
\* statistics.successful + statistics.failed is the number of issues processed.
C11_FailuresAreIsolated ==
    batchResults # NullData =>
        LET requested == parseIssueNumbers(issueInput)
            issues    == batchResults.issues
            cards     == DisplayedIssues(batchResults)
            stats     == DisplayedStatistics(batchResults)
        IN /\ Len(issues) = Len(requested)
           /\ Len(cards) = Len(requested)
           /\ \A i \in 1..Len(requested) :
                 /\ issues[i].issue_number = requested[i]
                 /\ cards[i].issue_number = requested[i]
                 /\ issues[i].success = (OutcomeOf(issueFails, requested[i]) = "ok")
                 /\ cards[i].failed = ~issues[i].success
                 /\ ~issues[i].success =>
                       /\ issues[i].error \notin {Null, ""}
                       /\ cards[i].text = "Failed: " \o issues[i].error
           /\ stats.analyzed + stats.failed = Len(requested)
           /\ stats.total = Len(requested)
           /\ stats.failed = Cardinality({i \in 1..Len(issues) : ~issues[i].success})

\* The results of a batch of several issues are on screen, one of them
\* failed and another analysed.
C11_Witness ==
    /\ BatchResultsShown
    /\ batchError = Null
    /\ \E i, j \in 1..Len(batchResults.issues) :
          /\ ~batchResults.issues[i].success
          /\ batchResults.issues[j].success
    /\ batchResults.statistics.failed >= 1
    /\ batchResults.statistics.successful >= 1

\* C12: the construction of a graph from a root with maxDepth in 1..3 fetches
\* and scans no issue number twice, whatever cycles the references form, and
\* ends after at most maxDepth levels.
C12_NoIssueExpandedTwice ==
    depTrace # NoTrace =>
        /\ depTrace.maxDepth \in 1..3
        /\ Len(depTrace.expanded) <= depTrace.maxDepth
        /\ \A i, j \in 1..Len(depTrace.expanded) :
               i # j => depTrace.expanded[i] \cap depTrace.expanded[j] = {}
        /\ \A i, j \in 1..Len(depTrace.attempted) :
               i # j => depTrace.attempted[i] \cap depTrace.attempted[j] = {}

\* A graph was built over two levels in a repository where the root and
\* another issue reference each other.
C12_Witness ==
    /\ depTrace # NoTrace
    /\ Len(depTrace.expanded) >= 2
    /\ \E v \in RepoIssues \ {depTrace.root} :
          /\ <<depTrace.root, v>> \in issueRefs
          /\ <<v, depTrace.root>> \in issueRefs
          /\ v \in depTrace.expanded[2]

\* The issues within k references of the issues S, through fetched issues.
RECURSIVE ReachableWithin(_, _, _, _)
ReachableWithin(S, k, refs, ok) ==
    IF k = 0 THEN S
    ELSE ReachableWithin(S \cup {v \in ok : \E u \in S : <<u, v>> \in refs},
                         k - 1, refs, ok)

\* C13: an issue that cannot be fetched is left out of the node set while the
\* rest of the graph is produced; and for a graph in which the target of some
\* edge is no node, the view renders without error, omitting exactly the
\* edges whose target is missing or is the root.
C13_MissingTargetsAreOmitted ==
    graphData # NullData =>
        /\ depTrace # NoTrace =>
              /\ NodeIds(graphData) \cap (RepoIssues \ fetchable) = {}
              /\ NodeIds(graphData) =
                     ReachableWithin({depTrace.root}, depTrace.maxDepth,
                                     issueRefs, fetchable)
        /\ \A e \in graphData.edges :
              /\ EdgeRender(graphData, e) # "TypeError"
              /\ EdgeRender(graphData, e) = "card" <=>
                     /\ e.target \in NodeIds(graphData)
                     /\ e.target # currentIssueNumber
              /\ EdgeRender(graphData, e) = "card" <=> e \in DisplayedEdges(graphData)

\* A graph is on screen with an edge whose target is no node, an edge back to
\* the root and an edge that is rendered.
C13_Witness ==
    /\ GraphShown
    /\ \E e \in graphData.edges : e.target \notin NodeIds(graphData)
    /\ \E e \in graphData.edges : e.target = currentIssueNumber
    /\ \E e \in graphData.edges : EdgeRender(graphData, e) = "card"

\* C14: one submit of the form causes exactly one /api/analyze request, a
\* request that failed is not sent again, and handleReset clears result and
\* error without issuing a request.
C14_OneRequestPerSubmit ==
    /\ [](appReq # NoReq => isLoading)
    /\ [][/\ appSent' \in {appSent, appSent + 1}
          /\ appSent' = appSent + 1 =>
                ~isLoading /\ isLoading' /\ appReq = NoReq /\ appReq' # NoReq
          /\ (~isLoading /\ isLoading') => appSent' = appSent + 1
          /\ appReq # NoReq =>
                appSent' = appSent /\ appReq' \in {appReq, NoReq}
          /\ (isLoading' = isLoading /\ (result # NullData \/ error # Null)
                 /\ result' = NullData /\ error' = Null) =>
                appReq' = appReq /\ appSent' = appSent]_vars

\* After one submit whose request failed, "Try Again" was pressed: still one
\* request was sent and none is in flight.
C14_Witness ==
    /\ appSent = 1
    /\ appSettled # NotSettled /\ appSettled.kind = "error"
    /\ ~isLoading /\ appReq = NoReq
    /\ error = Null /\ result = NullData

\* C15: a timed-out analyze request is shown under the title "Request
\* Timeout", a request that got no response under another title.
C15_TimeoutHasItsOwnCategory ==
    (ErrorDisplayShown /\ appSettled.kind = "error") =>
        LET err   == appSettled.err
            title == getErrorDetails(JsValueOf(error)).title
        IN /\ err.code = "ECONNABORTED" => title = "Request Timeout"
           /\ (err.code # "ECONNABORTED" /\ err.response = NullData /\ err.request)
                 => title # "Request Timeout"

\* The error of a timed-out request is on screen.
C15_Witness ==
    /\ ErrorDisplayShown
    /\ appSettled.kind = "error"
    /\ appSettled.err.code = "ECONNABORTED"
    /\ getErrorDetails(JsValueOf(error)).title = "Request Timeout"

ErrorTitles ==
    {"Issue Not Found", "Access Denied", "Rate Limit Exceeded", "Request Timeout",
     "Analysis Error", "Something Went Wrong"}

\* C16: for every error value, getErrorDetails returns one record of a
\* non-empty title, a description and a non-empty list of suggestions, and a
\* render with the same value yields the same record.
C16_ErrorDetailsAreTotal ==
    /\ [](errorRender # "none" =>
            /\ DOMAIN errorDetails = {"title", "description", "suggestions"}
            /\ errorDetails.title \in ErrorTitles
            /\ errorDetails.title # ""
            /\ Len(errorDetails.suggestions) > 0
            /\ \A i \in 1..Len(errorDetails.suggestions) :
                   errorDetails.suggestions[i] # "")
    /\ [][(errorRender # "none" /\ errorProp' = errorProp)
              => errorDetails' = errorDetails]_vars

\* A value that is no string, and one no rule matches, have been rendered twice.
C16_Witness ==
    /\ errorRender = "again"
    /\ errorProp.type # "string"
    /\ errorDetails.title = "Something Went Wrong"
    /\ errorDetails.description = errorProp

\* C17: the token of LabelCreator is only ever the github_token field of the
\* body of a /api/create-labels request, one request per click on the create
\* button; it is in no persistent store and in no other request, and the
\* component holds none once the modal is closed.
C17_TokenOnlyInCreateLabelsBody ==
    /\ [](/\ browserStorage = {}
          /\ \A req \in labelReqs :
                 /\ req.url = "/api/create-labels"
                 /\ ~TrimIsEmpty(req.body.github_token)
          /\ appReq # NoReq => "github_token" \notin DOMAIN appReq.body
          /\ \A req \in {batchReq, depReq, dupReq} :
                 req # NoReq => "github_token" \notin DOMAIN req
          /\ ~showLabelCreator => token = ""
          /\ Cardinality({req \in labelReqs : req.mounted}) <= 1
          /\ (\E req \in labelReqs : req.mounted) => labelLoading)
    /\ [][/\ labelSent' \in {labelSent, labelSent + 1}
          /\ labelSent' = labelSent + 1 <=> (~labelLoading /\ labelLoading')
          /\ \A req \in labelReqs' \ labelReqs :
                 \/ req.id \in {old.id : old \in labelReqs}
                 \/ /\ labelSent' = labelSent + 1
                    /\ req.body.github_token = token
                    /\ showLabelCreator]_vars

\* A token was sent and the modal closed while the request was in flight.
C17_Witness ==
    /\ labelSent > 0
    /\ ~showLabelCreator
    /\ token = ""
    /\ \E req \in labelReqs : ~req.mounted /\ req.body.github_token = "ghp_a"

\* C18: the selected depth of DependencyGraph starts at 1 and is always one
\* of 1, 2, 3, and so is the depth of every /api/dependencies request.
C18_DepthWithinOneToThree ==
    /\ depth = 1
    /\ [](/\ depth \in {1, 2, 3}
          /\ depReq # NoReq =>
                 depReq.url = "/api/dependencies" /\ depReq.depth \in {1, 2, 3})

\* A request with the deepest setting is in flight.
C18_Witness ==
    /\ depReq # NoReq
    /\ depReq.depth = 3
    /\ depth = 3

\* The colour of a class name: "bg-red-100" and "bg-red-500" are both red.
ColourOf(class) ==
    CHOOSE c \in {"red", "orange", "yellow", "gray"} : Includes(class, "-" \o c \o "-")

CategoryRank(label) ==
    CASE label = "Low Similarity"        -> 0
      [] label = "Possibly Related"      -> 1
      [] label = "Likely Duplicate"      -> 2
      [] label = "Very Likely Duplicate" -> 3

\* C19: every card shows "Very Likely Duplicate" iff its score is at least
\* 0.85, "Likely Duplicate" iff it is in [0.70, 0.85), "Possibly Related" iff
\* in [0.50, 0.70) and "Low Similarity" iff below 0.50; a higher score never
\* has a lower category, and the bar has the colour of the label's badge.
C19_CategoriesFollowThresholds ==
    duplicates # NullData =>
        LET cards == DisplayedDuplicates(duplicates.items)
        IN /\ \A i \in 1..Len(cards) :
                  LET s     == cards[i].similarity_score
                      label == cards[i].colors.label
                  IN /\ label = "Very Likely Duplicate" <=> s >= 85
                     /\ label = "Likely Duplicate" <=> (70 <= s /\ s < 85)
                     /\ label = "Possibly Related" <=> (50 <= s /\ s < 70)
                     /\ label = "Low Similarity" <=> s < 50
                     /\ ColourOf(cards[i].bar) = ColourOf(cards[i].colors.bg)
                     /\ ColourOf(cards[i].bar) = ColourOf(cards[i].colors.text)
           /\ \A i, j \in 1..Len(cards) :
                  cards[i].similarity_score <= cards[j].similarity_score
                      => CategoryRank(cards[i].colors.label)
                             <= CategoryRank(cards[j].colors.label)

\* Two cards on either side of the 0.85 threshold are on screen.
C19_Witness ==
    /\ DuplicatesShown
    /\ Len(duplicates.items) = 2
    /\ duplicates.items[1].similarity_score = 85
    /\ duplicates.items[2].similarity_score = 84
    /\ DisplayedDuplicates(duplicates.items)[1].colors.label = "Very Likely Duplicate"
    /\ DisplayedDuplicates(duplicates.items)[2].colors.label = "Likely Duplicate"

UrlParts(url) == Split(Chars(url), "/")

\* url, cut at its slashes, is a scheme, the host github.com, an owner and a
\* repository, with at most one empty part after them.
IsGitHubRepoUrl(url) ==
    LET parts == UrlParts(url)
    IN /\ Len(parts) \in {5, 6}
       /\ Str(parts[1]) \in {"http:", "https:"}
       /\ parts[2] = << >>
       /\ Str(parts[3]) = "github.com"
       /\ Name(Str(parts[4])) /\ Name(Str(parts[5]))
       /\ Len(parts) = 6 => parts[6] = << >>

\* C21: handleSubmit calls onSubmit only for a repository field that, trimmed,
\* is a GitHub repository URL and an issue field that parses to an integer of
\* at least 1, and otherwise sets a validation error without calling it; so
\* every /api/analyze request carries such a URL, trimmed, and such a number.
C21_OnlyValidFormsAreSubmitted ==
    /\ [](appReq # NoReq =>
            /\ IsGitHubRepoUrl(appReq.body.repo_url)
            /\ StartsWith(appReq.body.repo_url, "http")
            /\ SubSeq(appReq.body.repo_url, Len(appReq.body.repo_url),
                      Len(appReq.body.repo_url)) # " "
            /\ appReq.body.issue_number \in Nat /\ appReq.body.issue_number >= 1)
    /\ [][LET valid == /\ IsGitHubRepoUrl(StrTrim(formRepoUrl))
                       /\ ~ParseIntSigned(formIssueNumber).nan
                       /\ ParseIntSigned(formIssueNumber).value >= 1
          IN /\ appSent' # appSent =>
                   /\ valid
                   /\ validationError' = ""
                   /\ appReq'.body.repo_url = StrTrim(formRepoUrl)
                   /\ appReq'.body.issue_number = ParseIntSigned(formIssueNumber).value
             /\ (validationError' # "" /\ validationError' # validationError)
                   => ~valid /\ appSent' = appSent /\ appReq' = appReq]_vars

\* A URL typed with spaces around it and a number typed with a space before
\* it were submitted.
C21_Witness ==
    /\ appReq # NoReq
    /\ appReq.body.repo_url = "https://github.com/a/b"
    /\ appReq.body.issue_number = 2
    /\ validationError = ""

\* C22: for a repository URL the form accepts, the exclude_repo of a
\* /api/similar-cross-repo request is "owner/repo", the owner and repository
\* get_owner_repo extracts from that URL.
C22_ExcludeRepoIsOwnerRepo ==
    (crossReq # NoReq /\ validateUrl(currentRepoUrl)) =>
        crossReq.exclude_repo
            = get_owner_repo(currentRepoUrl)[1] \o "/" \o get_owner_repo(currentRepoUrl)[2]

\* C23: whenever App shows a result, currentRepoUrl and currentIssueNumber
\* are the repository and issue of the request that was answered with it; no
\* submit happens while a request is in flight, and the request in flight is
\* the one for the current repository and issue.
C23_ResultBelongsToCurrentIssue ==
    /\ [](/\ result # NullData =>
                /\ result.issue_data.repo_url = currentRepoUrl
                /\ result.issue_data.issue_number = currentIssueNumber
          /\ appReq # NoReq =>
                /\ isLoading
                /\ appReq.body.repo_url = currentRepoUrl
                /\ appReq.body.issue_number = currentIssueNumber)
    /\ [][/\ appSent' # appSent => appReq = NoReq
          /\ (result' # result /\ result' # NullData) =>
                /\ appReq # NoReq
                /\ result'.issue_data.repo_url = appReq.body.repo_url
                /\ result'.issue_data.issue_number = appReq.body.issue_number
                /\ currentRepoUrl' = currentRepoUrl
                /\ currentIssueNumber' = currentIssueNumber]_vars

\* The second submit, for another repository and issue than the first, was
\* answered with a result.
C23_Witness ==
    /\ appSent > 1
    /\ result # NullData
    /\ currentRepoUrl = "https://github.com/c/d"
    /\ currentIssueNumber = 2
    /\ result.issue_data.repo_url = "https://github.com/c/d"

\* C24: every issue number in a /api/batch-analyze request is an integer of
\* at least 1.
C24_BatchNumbersArePositive ==
    batchReq # NoReq =>
        \A i \in 1..Len(batchReq.issue_numbers) :
            batchReq.issue_numbers[i] \in Nat /\ batchReq.issue_numbers[i] >= 1

\* C25: each message handleAnalyze words itself is shown under the title of
\* its cause: the timeout message under "Request Timeout", the "Analysis
\* failed" fallback under "Analysis Error", and the server-error,
\* no-connection and unexpected-error fallbacks under "Something Went Wrong".
C25_OwnMessagesKeepTheirCategory ==
    ErrorDisplayShown =>
        LET title == getErrorDetails(JsValueOf(error)).title
        IN /\ error = "Request timeout. The analysis is taking too long. Please try again."
                 => title = "Request Timeout"
           /\ error = "Analysis failed. Please try again."
                 => title = "Analysis Error"
           /\ error \in {"Server error. Please try again.",
                         "Could not connect to the server. Please ensure the backend is running.",
                         "An unexpected error occurred. Please try again."}
                 => title = "Something Went Wrong"

\* The rules in their order: the words of a rule and its title.
ErrorRules ==
    <<[words |-> {"not found", "404"}, title |-> "Issue Not Found"],
      [words |-> {"private", "access denied", "403"}, title |-> "Access Denied"],
      [words |-> {"rate limit"}, title |-> "Rate Limit Exceeded"],
      [words |-> {"timeout"}, title |-> "Request Timeout"],
      [words |-> {"ai", "llm", "analysis"}, title |-> "Analysis Error"]>>

\* The rules a message matches, letter case aside.
RulesMatching(message) ==
    {i \in 1..Len(ErrorRules) :
        \E w \in ErrorRules[i].words : Includes(ToLowerCase(message), w)}

\* C26: getErrorDetails gives a message the title of the earliest rule, in
\* the order not found / 404, private / access denied / 403, rate limit,
\* timeout, ai / llm / analysis, of which it contains a word in any letter
\* case, and the generic title when it matches none.
C26_FirstMatchingRuleDecides ==
    (errorRender # "none" /\ errorProp.type = "string") =>
        LET matching == RulesMatching(errorProp.value)
        IN IF matching = {}
           THEN errorDetails.title = "Something Went Wrong"
           ELSE errorDetails.title
                    = ErrorRules[CHOOSE i \in matching : \A j \in matching : i <= j].title

\* A message in mixed case that matches the rate limit, the timeout and the
\* ai rule has been rendered.
C26_Witness ==
    /\ errorRender # "none"
    /\ errorProp = JsString("Rate Limit Timeout. Please try again.")
    /\ RulesMatching(errorProp.value) = {3, 4, 5}
    /\ errorDetails.title = "Rate Limit Exceeded"

\* C27: BatchAnalysis never shows results together with an error message.
C27_NoResultsBesideAnError ==
    ~(BatchResultsShown /\ batchError # Null /\ batchError # "")

\* C28: a graph on screen was fetched with the depth the selector shows.
C28_ShownGraphHasSelectedDepth ==
    (GraphShown /\ depTrace # NoTrace) => depTrace.maxDepth = depth

LabelSet(array) == {array[i] : i \in 1..Len(array)}

\* C30: the selected labels, and the labels of every create-labels request,
\* are among the suggested labels; a toggle changes the membership of exactly
\* one label; and toggling a label twice gives back the same set of labels.
C30_SelectionStaysWithinSuggestions ==
    /\ [](/\ LabelSet(selectedLabels) \subseteq LabelSet(SuggestedLabels)
          /\ \A req \in labelReqs :
                 LabelSet(req.body.labels) \subseteq LabelSet(SuggestedLabels)
          /\ \A label \in LabelSet(SuggestedLabels) :
                 LabelSet(toggleLabelUpdater(toggleLabelUpdater(selectedLabels, label), label))
                     = LabelSet(selectedLabels))
    /\ [][(showLabelCreator /\ showLabelCreator' /\ selectedLabels' # selectedLabels) =>
             \E label \in LabelSet(SuggestedLabels) :
                 /\ (label \in LabelSet(selectedLabels')) # (label \in LabelSet(selectedLabels))
                 /\ LabelSet(selectedLabels') \ {label} = LabelSet(selectedLabels) \ {label}]_vars

\* A request names the labels left after a label was toggled off.
C30_Witness ==
    \E req \in labelReqs :
        /\ req.body.labels = selectedLabels
        /\ LabelSet(selectedLabels) # LabelSet(SuggestedLabels)
        /\ LabelSet(selectedLabels) # {}

====
